---- MODULE Spec2Model ----
(***************************************************************************)
(* gp_relaccess_stats: per-relation access statistics.                     *)
(*                                                                         *)
(* A model of src/src/gp_relaccess_stats.c: the shared hash table          *)
(* `relaccesses`, the per-database dump files, and for every backend its   *)
(* transaction-local tables `local_access_entries` and `relname_cache`,    *)
(* its statement counter and its overflow flag.  Every region of code that *)
(* runs under one uninterrupted hold of a lock is one action; the commit   *)
(* callback, which keeps relaccess_ht_lock over its whole scan, is one     *)
(* action per scanned staging entry.                                       *)
(***************************************************************************)
EXTENDS Integers, Sequences, FiniteSets, TLC

----------------------------------------------------------------------------
(* Bounds of the model                                                     *)

NumProcs == 2
NumDbs == 2
NumRels == 3
NumNames == 2
MaxStmt == 1
MaxTime == 2
MaxAccess == 2
MaxRte == 1
\* gp_relaccess_stats.max_tables, scaled down
relaccess_size == 2

Procs == 1..NumProcs
Dbs == 1..NumDbs
Rels == 1..NumRels
Names == 1..NumNames
Keys == Dbs \X Rels

----------------------------------------------------------------------------
(* Values                                                                  *)

InvalidOid == 0
\* what an unassigned field of a freshly entered hash element may hold
GarbageOid == 99
GarbageName == 99
UninitOids == {GarbageOid}
NoKey == <<0, 0>>
NoFile == [exists |-> FALSE, records |-> <<>>]

ACL_INSERT == "INSERT"
ACL_SELECT == "SELECT"
ACL_UPDATE == "UPDATE"
ACL_DELETE == "DELETE"
ACL_TRUNCATE == "TRUNCATE"
AclBits == {ACL_INSERT, ACL_SELECT, ACL_UPDATE, ACL_DELETE, ACL_TRUNCATE}

\* requiredPerms values the executor presents
PermInputs == {{}, {ACL_SELECT}, {ACL_SELECT, ACL_UPDATE}}

RTE_RELATION == "RTE_RELATION"
RTE_SUBQUERY == "RTE_SUBQUERY"

\* range table entries
RteInputs ==
    [rtekind : {RTE_RELATION}, relid : Rels, requiredPerms : PermInputs]
        \cup {[rtekind |-> RTE_SUBQUERY, relid |-> InvalidOid, requiredPerms |-> {}]}

SeqsUpTo(S, n) == UNION {[1..m -> S] : m \in 1..n}

\* GetUserId() of a backend
GetUserId(p) == 10 + p

----------------------------------------------------------------------------
(* Hash tables as functions                                                *)

Empty == <<>>
Put(f, k, v) == [x \in (DOMAIN f) \cup {k} |-> IF x = k THEN v ELSE f[x]]
Del(f, k) == [x \in (DOMAIN f) \ {k} |-> f[x]]
hash_get_num_entries(f) == Cardinality(DOMAIN f)

is_write(perms) ==
    perms \cap {ACL_INSERT, ACL_UPDATE, ACL_DELETE, ACL_TRUNCATE} # {}

is_read(perms) == ~is_write(perms) /\ ACL_SELECT \in perms

Bit(perms, b) == IF b \in perms THEN 1 ELSE 0

----------------------------------------------------------------------------
(* Transaction-local staging                                               *)

\* faulty variant: every access that asks for SELECT counts as a read
memorize_select_as_read(lae, cnt, relid, perms, userid, curts, junk) ==
    LET key == <<relid, cnt>>
        found == key \in DOMAIN lae
        e0 == IF found
              THEN [lae[key] EXCEPT !.perms = @ \cup perms]
              ELSE [key |-> key,
                    last_reader_id |-> junk, last_writer_id |-> junk,
                    last_read |-> 0, last_write |-> 0,
                    perms |-> perms]
        e1 == IF ACL_SELECT \in perms
              THEN [e0 EXCEPT !.last_reader_id = userid, !.last_read = curts]
              ELSE e0
        e2 == IF is_write(perms)
              THEN [e1 EXCEPT !.last_writer_id = userid, !.last_write = curts]
              ELSE e1
    IN Put(lae, key, e2)

memorize_local_access_entry(lae, cnt, relid, perms, userid, curts, junk) ==
    LET key == <<relid, cnt>>
        found == key \in DOMAIN lae
        e0 == IF found
              THEN [lae[key] EXCEPT !.perms = @ \cup perms]
              ELSE [key |-> key,
                    last_reader_id |-> junk, last_writer_id |-> junk,
                    last_read |-> 0, last_write |-> 0,
                    perms |-> perms]
        e1 == IF is_read(perms)
              THEN [e0 EXCEPT !.last_reader_id = userid, !.last_read = curts]
              ELSE e0
        e2 == IF is_write(perms)
              THEN [e1 EXCEPT !.last_writer_id = userid, !.last_write = curts]
              ELSE e1
    IN Put(lae, key, e2)

\* relname = 0 stands for the NULL argument: the name is looked up
update_relname_cache(cache, relid, relname, get_rel_name) ==
    IF relid \in DOMAIN cache
    THEN cache
    ELSE Put(cache, relid, IF relname = 0 THEN get_rel_name ELSE relname)


----------------------------------------------------------------------------
(* State                                                                   *)

VARIABLES
    relaccesses,            \* shared hash table: relaccessHashKey -> relaccessEntry
    dumpfiles,              \* per database: does the file exist, and its records
    MyDatabaseId,           \* per backend
    is_enabled,             \* per backend (PGC_SUSET)
    dump_on_overflow,       \* the setting (PGC_SIGHUP), reread by all backends
    local_access_entries,   \* per backend: localAccessKey -> localAccessEntry
    relname_cache,          \* per backend: relid -> relname
    stmt_counter,           \* per backend
    had_ht_overflow,        \* per backend (static bool)
    pc,                     \* per backend: where it stands
    hash_seq,               \* per backend: staging keys the commit scan has not visited
    objectId,               \* per backend: database whose drop hook is running
    now,                    \* the clock GetCurrentTimestamp() reads
    budget,                 \* model bound: range table entries still to be presented
    committed,              \* history: per key and bit, staging entries merged at commit
    overflow_episode,       \* history: per backend, an update was dropped and
                            \*   no insert of a new key has succeeded since
    op_pre,                 \* history: per backend, the keys of the table when its
                            \*   running commit or drop began
    ev,                     \* history: what the last step did
    relaccess_ht_lock,      \* LWLock: its exclusive holder and its shared holders
    relaccess_file_lock,    \* LWLock: its holder (always taken exclusive)
    stats_entries,          \* per backend: the records read from the dump file
    events,                 \* history: per backend, the accesses its hooks have
                            \*   staged in the running transaction
    stmt_no                 \* history: per backend, the statements completed in
                            \*   the running transaction

vars == <<relaccesses, dumpfiles, MyDatabaseId, is_enabled, dump_on_overflow,
          local_access_entries, relname_cache, stmt_counter, had_ht_overflow,
          pc, hash_seq, objectId, now, budget, committed, overflow_episode,
          op_pre, ev, relaccess_ht_lock, relaccess_file_lock, stats_entries,
          events, stmt_no>>

shared == <<relaccesses, dumpfiles>>
session == <<MyDatabaseId, is_enabled, dump_on_overflow>>
staging == <<local_access_entries, relname_cache>>
history == <<committed, overflow_episode, op_pre>>
locks == <<relaccess_ht_lock, relaccess_file_lock>>
observed == <<events, stmt_no>>

\* LWLocks: nobody holds the lock
NoProc == 0
Unlocked == [excl |-> NoProc, shared |-> {}]

NoEv == [op |-> "init", p |-> 0, warn |-> 0, spill |-> FALSE, order |-> <<>>,
         bad |-> NoKey, files |-> {}, key |-> NoKey, arg |-> 0, hit |-> FALSE, keys |-> {}]

Ev(op, p) == [NoEv EXCEPT !.op = op, !.p = p]

ZeroCount == [k \in Keys |-> [b \in AclBits |-> 0]]

\* LWLockAcquire(relaccess_ht_lock, LW_EXCLUSIVE) and
\* LWLockAcquire(relaccess_file_lock, LW_EXCLUSIVE) would return at once
HtLockFree == relaccess_ht_lock = Unlocked
FileLockFree == relaccess_file_lock = NoProc

Perms(S) == {s \in [1..Cardinality(S) -> S] : \A i, j \in DOMAIN s : i # j => s[i] # s[j]}

----------------------------------------------------------------------------
(* Hooks of the executor                                                   *)

\* history: the accesses a range table makes memorize_local_access_entry stage
StagedRtes(rangeTable, cnt, stmt, curts) ==
    {[relid |-> rangeTable[i].relid, cnt |-> cnt, stmt |-> stmt,
      perms |-> rangeTable[i].requiredPerms, ts |-> curts] :
        i \in {j \in DOMAIN rangeTable :
                  /\ rangeTable[j].rtekind = RTE_RELATION
                  /\ \/ is_read(rangeTable[j].requiredPerms)
                     \/ is_write(rangeTable[j].requiredPerms)}}

StagedTruncates(relations, cnt, stmt, curts) ==
    {[relid |-> relations[i].relid, cnt |-> cnt, stmt |-> stmt,
      perms |-> {ACL_TRUNCATE}, ts |-> curts] : i \in DOMAIN relations}

\* history: the relation and the name of each update_relname_cache call a
\* hook makes, in the order of the calls
ObservedRtes(rangeTable, name) ==
    LET Observed(rte) ==
            /\ rte.rtekind = RTE_RELATION
            /\ is_read(rte.requiredPerms) \/ is_write(rte.requiredPerms)
        s == SelectSeq(rangeTable, Observed)
    IN [i \in 1..Len(s) |-> <<s[i].relid, name>>]

ObservedRelations(relations) ==
    [i \in 1..Len(relations) |-> <<relations[i].relid, relations[i].relname>>]

RECURSIVE collect_rangeTable(_, _, _, _, _, _, _, _)
collect_rangeTable(rangeTable, i, lae, cache, cnt, userid, curts, env) ==
    IF i > Len(rangeTable)
    THEN [lae |-> lae, cache |-> cache]
    ELSE LET rte == rangeTable[i]
             requiredPerms == rte.requiredPerms
         IN IF rte.rtekind # RTE_RELATION
            THEN collect_rangeTable(rangeTable, i + 1, lae, cache, cnt, userid, curts, env)
            ELSE IF is_read(requiredPerms) \/ is_write(requiredPerms)
            THEN collect_rangeTable(rangeTable, i + 1,
                    memorize_local_access_entry(lae, cnt, rte.relid, requiredPerms,
                                                userid, curts, env.junk),
                    update_relname_cache(cache, rte.relid, 0, env.name),
                    cnt, userid, curts, env)
            ELSE collect_rangeTable(rangeTable, i + 1, lae, cache, cnt, userid, curts, env)

collect_relaccess_hook(p, rangeTable, curts, env) ==
    /\ pc[p] = "idle"
    /\ Len(rangeTable) <= budget
    /\ budget' = budget - Len(rangeTable)
    /\ now' = curts
    /\ IF is_enabled[p]
       THEN LET r == collect_rangeTable(rangeTable, 1, local_access_entries[p],
                                        relname_cache[p], stmt_counter[p],
                                        GetUserId(p), curts, env)
            IN /\ local_access_entries' = [local_access_entries EXCEPT ![p] = r.lae]
               /\ relname_cache' = [relname_cache EXCEPT ![p] = r.cache]
       ELSE UNCHANGED staging
    /\ ev' = [Ev("collect", p) EXCEPT
                 !.order = IF is_enabled[p]
                           THEN ObservedRtes(rangeTable, env.name) ELSE <<>>]
    /\ UNCHANGED <<shared, session, stmt_counter, had_ht_overflow, pc, hash_seq,
                   objectId, history>>
    /\ events' = [events EXCEPT ![p] =
                      IF is_enabled[p]
                      THEN @ \cup StagedRtes(rangeTable, stmt_counter[p], stmt_no[p], curts)
                      ELSE @]
    /\ UNCHANGED <<locks, stats_entries, stmt_no>>

RECURSIVE collect_relations(_, _, _, _, _, _, _, _)
collect_relations(relations, i, lae, cache, cnt, userid, curts, env) ==
    IF i > Len(relations)
    THEN [lae |-> lae, cache |-> cache]
    ELSE LET rv == relations[i]
         IN collect_relations(relations, i + 1,
                memorize_local_access_entry(lae, cnt, rv.relid, {ACL_TRUNCATE},
                                            userid, curts, env.junk),
                update_relname_cache(cache, rv.relid, rv.relname, env.name),
                cnt, userid, curts, env)

\* a TruncateStmt; other utility statements do not touch the model's state
collect_truncate_hook(p, relations, curts, env) ==
    /\ pc[p] = "idle"
    /\ Len(relations) <= budget
    /\ budget' = budget - Len(relations)
    /\ now' = curts
    /\ IF is_enabled[p]
       THEN LET r == collect_relations(relations, 1, local_access_entries[p],
                                       relname_cache[p], stmt_counter[p],
                                       GetUserId(p), curts, env)
            IN /\ local_access_entries' = [local_access_entries EXCEPT ![p] = r.lae]
               /\ relname_cache' = [relname_cache EXCEPT ![p] = r.cache]
       ELSE UNCHANGED staging
    /\ ev' = [Ev("collect", p) EXCEPT
                 !.order = IF is_enabled[p]
                           THEN ObservedRelations(relations) ELSE <<>>]
    /\ UNCHANGED <<shared, session, stmt_counter, had_ht_overflow, pc, hash_seq,
                   objectId, history>>
    /\ events' = [events EXCEPT ![p] =
                      IF is_enabled[p]
                      THEN @ \cup StagedTruncates(relations, stmt_counter[p], stmt_no[p], curts)
                      ELSE @]
    /\ stmt_no' = [stmt_no EXCEPT ![p] = @ + 1]
    /\ UNCHANGED <<locks, stats_entries>>

relaccess_executor_end_hook(p) ==
    /\ pc[p] = "idle"
    /\ stmt_counter[p] < MaxStmt
    /\ stmt_counter' = [stmt_counter EXCEPT ![p] = @ + 1]
    /\ ev' = NoEv
    /\ UNCHANGED <<shared, session, staging, had_ht_overflow, pc, hash_seq,
                   objectId, now, budget, history>>
    /\ stmt_no' = [stmt_no EXCEPT ![p] = @ + 1]
    /\ UNCHANGED <<locks, stats_entries, events>>

----------------------------------------------------------------------------
(* Spill to the dump files                                                 *)
(*                                                                         *)
(* A machine state m threads the scan: ht (the shared table), files, ovf   *)
(* (had_ht_overflow of the running backend), cache (its relname_cache),    *)
(* warn (WARNINGs raised), failed (the entry whose fwrite failed).         *)
(* `order` is the order in which hash_seq_search yields the entries and    *)
(* `bad` the entry, if any, whose fwrite returns short.                    *)

Machine(p) == [ht |-> relaccesses, files |-> dumpfiles, ovf |-> had_ht_overflow[p],
               cache |-> relname_cache[p], warn |-> 0, failed |-> NoKey]

\* AllocateFile(filename, "ab"): the file exists afterwards
add_file_dump_entry(files, dbid) ==
    [files EXCEPT ![dbid].exists = TRUE]

RECURSIVE add_file_dump_entries(_, _)
add_file_dump_entries(files, dbids) ==
    IF dbids = {}
    THEN files
    ELSE LET d == CHOOSE x \in dbids : TRUE
         IN add_file_dump_entries(add_file_dump_entry(files, d), dbids \ {d})

\* Faulty variant of the scan, kept to show that the properties below tell
\* it from the real one: it writes an entry and leaves it in the table.
RECURSIVE dump_internal_keeps_entries(_, _, _, _, _)
dump_internal_keeps_entries(m, files, order, i, bad) ==
    IF i > Len(order)
    THEN m
    ELSE LET key == order[i]
         IN IF key[1] \notin files
            THEN dump_internal_keeps_entries(m, files, order, i + 1, bad)
            ELSE IF key = bad
            THEN [m EXCEPT !.warn = @ + 1, !.failed = key]
            ELSE dump_internal_keeps_entries(
                    [m EXCEPT !.files[key[1]].records = Append(@, m.ht[key]),
                              !.ovf = FALSE],
                    files, order, i + 1, bad)

\* Faulty variant of the scan: the entry whose write fails is removed from
\* the table all the same.
RECURSIVE dump_internal_removes_unwritten(_, _, _, _, _)
dump_internal_removes_unwritten(m, files, order, i, bad) ==
    IF i > Len(order)
    THEN m
    ELSE LET key == order[i]
         IN IF key[1] \notin files
            THEN dump_internal_removes_unwritten(m, files, order, i + 1, bad)
            ELSE IF key = bad
            THEN [m EXCEPT !.warn = @ + 1, !.failed = key, !.ht = Del(@, key)]
            ELSE dump_internal_removes_unwritten(
                    [m EXCEPT !.files[key[1]].records = Append(@, m.ht[key]),
                              !.ht = Del(@, key),
                              !.ovf = FALSE],
                    files, order, i + 1, bad)

RECURSIVE relaccess_dump_to_files_internal(_, _, _, _, _)
relaccess_dump_to_files_internal(m, files, order, i, bad) ==
    IF i > Len(order)
    THEN m
    ELSE LET key == order[i]
         IN IF key[1] \notin files
            THEN relaccess_dump_to_files_internal(m, files, order, i + 1, bad)
            ELSE IF key = bad
            THEN [m EXCEPT !.warn = @ + 1, !.failed = key]
            ELSE relaccess_dump_to_files_internal(
                    [m EXCEPT !.files[key[1]].records = Append(@, m.ht[key]),
                              !.ht = Del(@, key),
                              !.ovf = FALSE],
                    files, order, i + 1, bad)

\* faulty variant: the pass opens the file of every database of the table
file_mapping_every_db(ht, only_this_db, mydb) == {k[1] : k \in DOMAIN ht}

\* the set of databases whose file the pass opens
file_mapping(ht, only_this_db, mydb) ==
    IF only_this_db THEN {mydb} ELSE {k[1] : k \in DOMAIN ht}

relaccess_dump_to_files(m, only_this_db, mydb, order, bad) ==
    LET files == file_mapping(m.ht, only_this_db, mydb)
    IN relaccess_dump_to_files_internal(
            [m EXCEPT !.files = add_file_dump_entries(m.files, files)],
            files, order, 1, bad)

\* the 11 columns relaccess_stats_from_dump() returns for one record
DumpColumns(entry) ==
    [relid |-> entry.key[2], relname |-> entry.relname,
     last_reader_id |-> entry.last_reader_id, last_writer_id |-> entry.last_writer_id,
     last_read |-> entry.last_read, last_write |-> entry.last_write,
     n_select_queries |-> entry.n_select, n_insert_queries |-> entry.n_insert,
     n_update_queries |-> entry.n_update, n_delete_queries |-> entry.n_delete,
     n_truncate_queries |-> entry.n_truncate]

relaccess_stats_from_dump(files, mydb) ==
    IF ~files[mydb].exists
    THEN <<>>
    ELSE [i \in 1..Len(files[mydb].records) |-> DumpColumns(files[mydb].records[i])]

----------------------------------------------------------------------------
(* The transaction callback                                                *)

\* a hash element as HASH_ENTER_NULL hands it out: only the key is set
NewElement(key) ==
    [key |-> key, relname |-> GarbageName,
     last_reader_id |-> GarbageOid, last_writer_id |-> GarbageOid,
     last_read |-> GarbageOid, last_write |-> GarbageOid,
     n_select |-> GarbageOid, n_insert |-> GarbageOid, n_update |-> GarbageOid,
     n_delete |-> GarbageOid, n_truncate |-> GarbageOid]

\* faulty variant: the new element keeps what the memory held
InitEntryKeepsGarbage(e) == e

InitEntry(e) ==
    [e EXCEPT !.last_reader_id = InvalidOid, !.last_writer_id = InvalidOid,
              !.last_read = 0, !.last_write = 0,
              !.n_select = 0, !.n_insert = 0, !.n_update = 0,
              !.n_delete = 0, !.n_truncate = 0]

\* faulty variant: the update counter is not merged
UPDATE_STATS_without_update(dst, src) ==
    [dst EXCEPT !.n_select = @ + Bit(src.perms, ACL_SELECT),
                !.n_insert = @ + Bit(src.perms, ACL_INSERT),
                !.n_delete = @ + Bit(src.perms, ACL_DELETE),
                !.n_truncate = @ + Bit(src.perms, ACL_TRUNCATE)]

UPDATE_STATS(dst, src) ==
    [dst EXCEPT !.n_select = @ + Bit(src.perms, ACL_SELECT),
                !.n_insert = @ + Bit(src.perms, ACL_INSERT),
                !.n_update = @ + Bit(src.perms, ACL_UPDATE),
                !.n_delete = @ + Bit(src.perms, ACL_DELETE),
                !.n_truncate = @ + Bit(src.perms, ACL_TRUNCATE)]

\* faulty variant: an equal timestamp replaces the reader
UpdateLastReadOnEqual(dst, src) ==
    IF src.last_read >= dst.last_read
    THEN [dst EXCEPT !.last_read = src.last_read,
                     !.last_reader_id = src.last_reader_id]
    ELSE dst

UpdateLastRead(dst, src) ==
    IF src.last_read > dst.last_read
    THEN [dst EXCEPT !.last_read = src.last_read,
                     !.last_reader_id = src.last_reader_id]
    ELSE dst

\* faulty variant: the writer of the staging entry is copied whether or not
\* the entry recorded a write
UpdateLastWriteAlways(dst, src) ==
    [dst EXCEPT !.last_write = IF src.last_write > @ THEN src.last_write ELSE @,
                !.last_writer_id = src.last_writer_id]

UpdateLastWrite(dst, src) ==
    IF src.last_write > dst.last_write
    THEN [dst EXCEPT !.last_write = src.last_write,
                     !.last_writer_id = src.last_writer_id]
    ELSE dst

\* lines 424-452: dst_entry is not NULL
MergeInto(m, src, key) ==
    LET found == key \in DOMAIN m.ht
        d0 == IF found THEN m.ht[key] ELSE InitEntry(NewElement(key))
        d1 == UPDATE_STATS(d0, src)
        d2 == UpdateLastRead(d1, src)
        d3 == UpdateLastWrite(d2, src)
        cache == IF key[2] \in DOMAIN m.cache
                 THEN m.cache
                 ELSE Put(m.cache, key[2], GarbageName)
        d4 == [d3 EXCEPT !.relname = cache[key[2]]]
    IN [m EXCEPT !.ht = Put(@, key, d4), !.cache = cache]

\* faulty variants of one iteration: the first never looks a key up in a full
\* table, the second inserts after the dump without asking whether the table
\* has room
MergeEntryWithoutFind(m, src, key, dump, order, bad) ==
    LET full == hash_get_num_entries(m.ht) = relaccess_size
        dst_entry == ~full
    IN IF dst_entry \/ dump
       THEN IF ~dst_entry
            THEN LET m1 == relaccess_dump_to_files(m, FALSE, key[1], order, bad)
                 IN IF hash_get_num_entries(m1.ht) = relaccess_size
                    THEN [m1 EXCEPT !.warn = @ + (IF m1.ovf THEN 0 ELSE 1),
                                    !.ovf = TRUE]
                    ELSE MergeInto([m1 EXCEPT !.ovf = FALSE], src, key)
            ELSE MergeInto(m, src, key)
       ELSE [m EXCEPT !.warn = @ + (IF m.ovf THEN 0 ELSE 1), !.ovf = TRUE]

MergeEntryEvicting(m, src, key, dump, order, bad) ==
    LET full == hash_get_num_entries(m.ht) = relaccess_size
        dst_entry == IF full THEN key \in DOMAIN m.ht ELSE TRUE
    IN IF dst_entry \/ dump
       THEN IF ~dst_entry
            THEN LET m1 == relaccess_dump_to_files(m, FALSE, key[1], order, bad)
                     victim == CHOOSE k \in DOMAIN m1.ht : TRUE
                 IN IF hash_get_num_entries(m1.ht) = relaccess_size
                    THEN MergeInto([m1 EXCEPT !.ht = Del(@, victim)], src, key)
                    ELSE MergeInto([m1 EXCEPT !.ovf = FALSE], src, key)
            ELSE MergeInto(m, src, key)
       ELSE [m EXCEPT !.warn = @ + (IF m.ovf THEN 0 ELSE 1), !.ovf = TRUE]

\* faulty variant: the iteration enters the key without asking whether the
\* table is full
MergeEntryUnbounded(m, src, key, dump, order, bad) == MergeInto(m, src, key)

\* one iteration of the scan of local_access_entries, lines 389-461
MergeEntry(m, src, key, dump, order, bad) ==
    LET full == hash_get_num_entries(m.ht) = relaccess_size
        dst_entry == IF full THEN key \in DOMAIN m.ht ELSE TRUE
    IN IF dst_entry \/ dump
       THEN IF ~dst_entry
            THEN LET m1 == relaccess_dump_to_files(m, FALSE, key[1], order, bad)
                 IN IF hash_get_num_entries(m1.ht) = relaccess_size
                    THEN [m1 EXCEPT !.warn = @ + (IF m1.ovf THEN 0 ELSE 1),
                                    !.ovf = TRUE]
                    ELSE MergeInto([m1 EXCEPT !.ovf = FALSE], src, key)
            ELSE MergeInto(m, src, key)
       ELSE [m EXCEPT !.warn = @ + (IF m.ovf THEN 0 ELSE 1), !.ovf = TRUE]

\* CLEAR_HTAB of both transaction-local tables
ClearLocal(p) ==
    /\ local_access_entries' = [local_access_entries EXCEPT ![p] = Empty]
    /\ relname_cache' = [relname_cache EXCEPT ![p] = Empty]

\* faulty variant: the scan starts without relaccess_ht_lock
XactCommitWithoutLock(p) ==
    /\ pc[p] = "idle"
    /\ IF is_enabled[p]
       THEN /\ TRUE
            /\ pc' = [pc EXCEPT ![p] = "merge"]
            /\ hash_seq' = [hash_seq EXCEPT ![p] = DOMAIN local_access_entries[p]]
            /\ op_pre' = [op_pre EXCEPT ![p] = DOMAIN relaccesses]
            /\ relaccess_ht_lock' = relaccess_ht_lock
            /\ ev' = Ev("commit", p)
            /\ UNCHANGED observed
       ELSE /\ UNCHANGED <<pc, hash_seq, op_pre, relaccess_ht_lock>>
            /\ ev' = Ev("commit_off", p)
            /\ events' = [events EXCEPT ![p] = {}]
            /\ stmt_no' = [stmt_no EXCEPT ![p] = 0]
    /\ UNCHANGED <<shared, session, staging, stmt_counter, had_ht_overflow,
                   objectId, now, budget, committed, overflow_episode>>
    /\ UNCHANGED <<relaccess_file_lock, stats_entries>>

\* relaccess_xact_callback(XACT_EVENT_COMMIT), up to the start of the scan
XactCommit(p) ==
    /\ pc[p] = "idle"
    /\ IF is_enabled[p]
       THEN /\ HtLockFree
            /\ pc' = [pc EXCEPT ![p] = "merge"]
            /\ hash_seq' = [hash_seq EXCEPT ![p] = DOMAIN local_access_entries[p]]
            /\ op_pre' = [op_pre EXCEPT ![p] = DOMAIN relaccesses]
            /\ relaccess_ht_lock' = [Unlocked EXCEPT !.excl = p]
            /\ ev' = Ev("commit", p)
            /\ UNCHANGED observed
       ELSE /\ UNCHANGED <<pc, hash_seq, op_pre, relaccess_ht_lock>>
            /\ ev' = Ev("commit_off", p)
            /\ events' = [events EXCEPT ![p] = {}]
            /\ stmt_no' = [stmt_no EXCEPT ![p] = 0]
    /\ UNCHANGED <<shared, session, staging, stmt_counter, had_ht_overflow,
                   objectId, now, budget, committed, overflow_episode>>
    /\ UNCHANGED <<relaccess_file_lock, stats_entries>>

\* faulty variant: a dropped update ends the scan
XactMergeStopsAtDrop(p, skey, order, bad) ==
    /\ pc[p] = "merge"
    /\ skey \in hash_seq[p]
    /\ LET src == local_access_entries[p][skey]
           key == <<MyDatabaseId[p], skey[1]>>
           dump == /\ dump_on_overflow
                   /\ hash_get_num_entries(relaccesses) = relaccess_size
                   /\ key \notin DOMAIN relaccesses
           m == MergeEntry(Machine(p), src, key, dump_on_overflow, order, bad)
           merged == key \in DOMAIN m.ht
       IN /\ relaccesses' = m.ht
          /\ dumpfiles' = m.files
          /\ had_ht_overflow' = [had_ht_overflow EXCEPT ![p] = m.ovf]
          /\ relname_cache' = [relname_cache EXCEPT ![p] = m.cache]
          /\ committed' = [committed EXCEPT ![key] =
                              [b \in AclBits |-> @[b] + Bit(src.perms, b)]]
          /\ overflow_episode' = [overflow_episode EXCEPT ![p] =
                              IF ~merged THEN TRUE
                              ELSE IF key \notin DOMAIN relaccesses THEN FALSE
                              ELSE @]
          /\ ev' = [Ev("merge", p) EXCEPT
                        !.warn = m.warn, !.key = key, !.arg = skey[2],
                        !.hit = key \in DOMAIN relaccesses,
                        !.spill = dump,
                        !.order = IF dump THEN order ELSE <<>>,
                        !.bad = m.failed,
                        !.files = IF dump
                                  THEN file_mapping(relaccesses, FALSE, key[1])
                                  ELSE {}]
    /\ hash_seq' = [hash_seq EXCEPT ![p] =
                        IF <<MyDatabaseId[p], skey[1]>> \in DOMAIN relaccesses'
                        THEN @ \ {skey} ELSE {}]
    /\ UNCHANGED <<session, local_access_entries, stmt_counter, pc, objectId,
                   now, budget, op_pre>>
    /\ (/\ dump_on_overflow
        /\ hash_get_num_entries(relaccesses) = relaccess_size
        /\ <<MyDatabaseId[p], skey[1]>> \notin DOMAIN relaccesses) => FileLockFree
    /\ UNCHANGED <<locks, stats_entries, observed>>

\* one iteration of the scan, under relaccess_ht_lock
XactMerge(p, skey, order, bad) ==
    /\ pc[p] = "merge"
    /\ skey \in hash_seq[p]
    /\ LET src == local_access_entries[p][skey]
           key == <<MyDatabaseId[p], skey[1]>>
           dump == /\ dump_on_overflow
                   /\ hash_get_num_entries(relaccesses) = relaccess_size
                   /\ key \notin DOMAIN relaccesses
           m == MergeEntry(Machine(p), src, key, dump_on_overflow, order, bad)
           merged == key \in DOMAIN m.ht
       IN /\ relaccesses' = m.ht
          /\ dumpfiles' = m.files
          /\ had_ht_overflow' = [had_ht_overflow EXCEPT ![p] = m.ovf]
          /\ relname_cache' = [relname_cache EXCEPT ![p] = m.cache]
          /\ committed' = [committed EXCEPT ![key] =
                              [b \in AclBits |-> @[b] + Bit(src.perms, b)]]
          /\ overflow_episode' = [overflow_episode EXCEPT ![p] =
                              IF ~merged THEN TRUE
                              ELSE IF key \notin DOMAIN relaccesses THEN FALSE
                              ELSE @]
          /\ ev' = [Ev("merge", p) EXCEPT
                        !.warn = m.warn, !.key = key, !.arg = skey[2],
                        !.hit = key \in DOMAIN relaccesses,
                        !.spill = dump,
                        !.order = IF dump THEN order ELSE <<>>,
                        !.bad = m.failed,
                        !.files = IF dump
                                  THEN file_mapping(relaccesses, FALSE, key[1])
                                  ELSE {}]
    /\ hash_seq' = [hash_seq EXCEPT ![p] = @ \ {skey}]
    /\ UNCHANGED <<session, local_access_entries, stmt_counter, pc, objectId,
                   now, budget, op_pre>>
    /\ (/\ dump_on_overflow
        /\ hash_get_num_entries(relaccesses) = relaccess_size
        /\ <<MyDatabaseId[p], skey[1]>> \notin DOMAIN relaccesses) => FileLockFree
    /\ UNCHANGED <<locks, stats_entries, observed>>

\* the scan is over: release the lock, clear the transaction-local tables
XactCommitEnd(p) ==
    /\ pc[p] = "merge"
    /\ hash_seq[p] = {}
    /\ pc' = [pc EXCEPT ![p] = "idle"]
    /\ ClearLocal(p)
    /\ op_pre' = [op_pre EXCEPT ![p] = {}]
    /\ ev' = [Ev("commit_end", p) EXCEPT
                 !.arg = hash_get_num_entries(local_access_entries[p]),
                 !.hit = op_pre[p] = {}]
    /\ UNCHANGED <<shared, session, stmt_counter, had_ht_overflow, hash_seq,
                   objectId, now, budget, committed, overflow_episode>>
    /\ relaccess_ht_lock' = Unlocked
    /\ events' = [events EXCEPT ![p] = {}]
    /\ stmt_no' = [stmt_no EXCEPT ![p] = 0]
    /\ UNCHANGED <<relaccess_file_lock, stats_entries>>

\* faulty variant: the abort clears the shared table with the local ones
XactAbortClearsShared(p) ==
    /\ pc[p] = "idle"
    /\ IF is_enabled[p] THEN ClearLocal(p) ELSE UNCHANGED staging
    /\ relaccesses' = Empty
    /\ ev' = [Ev("abort", p) EXCEPT
                 !.arg = hash_get_num_entries(local_access_entries[p])]
    /\ UNCHANGED <<dumpfiles, session, stmt_counter, had_ht_overflow, pc, hash_seq,
                   objectId, now, budget, history>>
    /\ events' = [events EXCEPT ![p] = {}]
    /\ stmt_no' = [stmt_no EXCEPT ![p] = 0]
    /\ UNCHANGED <<locks, stats_entries>>

\* relaccess_xact_callback(XACT_EVENT_ABORT)
XactAbort(p) ==
    /\ pc[p] = "idle"
    /\ IF is_enabled[p] THEN ClearLocal(p) ELSE UNCHANGED staging
    /\ ev' = [Ev("abort", p) EXCEPT
                 !.arg = hash_get_num_entries(local_access_entries[p])]
    /\ UNCHANGED <<shared, session, stmt_counter, had_ht_overflow, pc, hash_seq,
                   objectId, now, budget, history>>
    /\ events' = [events EXCEPT ![p] = {}]
    /\ stmt_no' = [stmt_no EXCEPT ![p] = 0]
    /\ UNCHANGED <<locks, stats_entries>>

----------------------------------------------------------------------------
(* Administrative functions                                                *)

SpillEv(op, p, m, order) ==
    [Ev(op, p) EXCEPT !.warn = m.warn, !.spill = TRUE, !.order = order,
                      !.bad = m.failed,
                      !.files = file_mapping(relaccesses, TRUE, MyDatabaseId[p])]

relaccess_stats_dump(p, order, bad) ==
    /\ pc[p] = "idle"
    /\ HtLockFree
    /\ LET m == relaccess_dump_to_files(Machine(p), TRUE, MyDatabaseId[p], order, bad)
       IN /\ relaccesses' = m.ht
          /\ dumpfiles' = m.files
          /\ had_ht_overflow' = [had_ht_overflow EXCEPT ![p] = m.ovf]
          /\ ev' = SpillEv("dump", p, m, order)
    /\ UNCHANGED <<session, staging, stmt_counter, pc, hash_seq, objectId, now,
                   budget, history>>
    /\ FileLockFree
    /\ UNCHANGED <<locks, stats_entries, observed>>

\* relaccess_stats_update_internal, the part under relaccess_ht_lock
relaccess_stats_update_internal(p, order, bad) ==
    /\ pc[p] = "idle"
    /\ HtLockFree
    /\ LET m == relaccess_dump_to_files(Machine(p), TRUE, MyDatabaseId[p], order, bad)
       IN /\ relaccesses' = m.ht
          /\ dumpfiles' = m.files
          /\ had_ht_overflow' = [had_ht_overflow EXCEPT ![p] = m.ovf]
          /\ ev' = SpillEv("update_dump", p, m, order)
    /\ pc' = [pc EXCEPT ![p] = "upsert"]
    /\ UNCHANGED <<session, staging, stmt_counter, hash_seq, objectId, now,
                   budget, history>>
    /\ FileLockFree
    /\ UNCHANGED <<locks, stats_entries, observed>>

\* outcomes of SPI_execute: a result >= 0, a result < 0, an ERROR raised inside
SPI_OK == "SPI_OK"
SPI_NEGATIVE == "SPI_NEGATIVE"
SPI_THROWS == "SPI_THROWS"
SpiOutcomes == {SPI_OK, SPI_NEGATIVE, SPI_THROWS}

\* the dump file after relaccess_upsert_from_file's critical section
upsert_unlink(files, mydb, ret) ==
    IF ret = SPI_THROWS THEN files ELSE [files EXCEPT ![mydb] = NoFile]

\* relaccess_upsert_from_file, under relaccess_file_lock; an ERROR aborts the
\* transaction, which runs the callback with XACT_EVENT_ABORT
relaccess_upsert_from_file(p, ret) ==
    /\ pc[p] = "upsert"
    /\ dumpfiles' = upsert_unlink(dumpfiles, MyDatabaseId[p], ret)
    /\ pc' = [pc EXCEPT ![p] = "idle"]
    /\ IF ret # SPI_OK /\ is_enabled[p] THEN ClearLocal(p) ELSE UNCHANGED staging
    /\ ev' = [Ev("upsert", p) EXCEPT !.arg = ret]
    /\ UNCHANGED <<relaccesses, session, stmt_counter, had_ht_overflow, hash_seq,
                   objectId, now, budget, history>>
    /\ FileLockFree
    /\ IF ret # SPI_OK
       THEN /\ events' = [events EXCEPT ![p] = {}]
            /\ stmt_no' = [stmt_no EXCEPT ![p] = 0]
       ELSE UNCHANGED observed
    /\ UNCHANGED <<locks, stats_entries>>

----------------------------------------------------------------------------
(* Drop of a database                                                      *)

\* faulty variant: the hook empties the table
RemoveEveryDb(ht, dbid) == Empty

RemoveDb(ht, dbid) == [k \in {x \in DOMAIN ht : x[1] # dbid} |-> ht[k]]

\* relaccess_drop_hook, the part under relaccess_ht_lock.  DROP DATABASE
\* runs in a backend of another database while no backend is connected to
\* the database it drops.
relaccess_drop_hook(p, dbid) ==
    /\ pc[p] = "idle"
    /\ HtLockFree
    /\ \A q \in Procs : MyDatabaseId[q] # dbid /\ objectId[q] # dbid
    /\ relaccesses' = RemoveDb(relaccesses, dbid)
    /\ had_ht_overflow' = [had_ht_overflow EXCEPT ![p] =
                              IF \E k \in DOMAIN relaccesses : k[1] = dbid
                              THEN FALSE ELSE @]
    /\ pc' = [pc EXCEPT ![p] = "drop_unlink"]
    /\ objectId' = [objectId EXCEPT ![p] = dbid]
    /\ op_pre' = [op_pre EXCEPT ![p] = DOMAIN relaccesses]
    /\ ev' = [Ev("drop", p) EXCEPT !.arg = dbid]
    /\ UNCHANGED <<dumpfiles, session, staging, stmt_counter, hash_seq, now,
                   budget, committed, overflow_episode>>
    /\ UNCHANGED <<locks, stats_entries, observed>>

\* relaccess_drop_hook, the part under relaccess_file_lock
relaccess_drop_unlink(p) ==
    /\ pc[p] = "drop_unlink"
    /\ dumpfiles' = [dumpfiles EXCEPT ![objectId[p]] = NoFile]
    /\ pc' = [pc EXCEPT ![p] = "idle"]
    /\ objectId' = [objectId EXCEPT ![p] = 0]
    /\ op_pre' = [op_pre EXCEPT ![p] = {}]
    /\ ev' = [Ev("drop_unlink", p) EXCEPT
                 !.arg = objectId[p],
                 !.hit = dumpfiles[objectId[p]].exists,
                 !.keys = {k \in op_pre[p] : k[1] = objectId[p]}]
    /\ UNCHANGED <<relaccesses, session, staging, stmt_counter, had_ht_overflow,
                   hash_seq, now, budget, committed, overflow_episode>>
    /\ FileLockFree
    /\ UNCHANGED <<locks, stats_entries, observed>>

----------------------------------------------------------------------------
(* The same functions, one step per lock acquisition.  Here a backend     *)
(* stands at a label between the steps: at "X_ht" it holds                 *)
(* relaccess_ht_lock, at "X_file" relaccess_file_lock (and in dump and     *)
(* update relaccess_ht_lock as well); "upsert" and "drop_unlink" are the   *)
(* points between the two critical sections, with no lock held.            *)

\* the postmaster, in which relaccess_shmem_shutdown runs
Postmaster == NumProcs + 1

rest == <<session, staging, stmt_counter, hash_seq, now, budget, committed,
          overflow_episode, observed>>

\* LWLockAcquire(data->relaccess_ht_lock, LW_EXCLUSIVE) returns
LWLockAcquire_ht(p, from, to) ==
    /\ pc[p] = from
    /\ HtLockFree
    /\ relaccess_ht_lock' = [Unlocked EXCEPT !.excl = p]
    /\ pc' = [pc EXCEPT ![p] = to]
    /\ ev' = Ev("acquire_ht", p)
    /\ UNCHANGED <<shared, rest, had_ht_overflow, objectId, op_pre,
                   relaccess_file_lock, stats_entries>>

\* LWLockAcquire(data->relaccess_file_lock, LW_EXCLUSIVE) returns
LWLockAcquire_file(p, from, to) ==
    /\ pc[p] = from
    /\ FileLockFree
    /\ relaccess_file_lock' = p
    /\ pc' = [pc EXCEPT ![p] = to]
    /\ ev' = Ev("acquire_file", p)
    /\ UNCHANGED <<shared, rest, had_ht_overflow, objectId, op_pre,
                   relaccess_ht_lock, stats_entries>>

\* the transaction of backend p aborts on an ERROR
AbortOnError(p) ==
    /\ IF is_enabled[p] THEN ClearLocal(p) ELSE UNCHANGED staging
    /\ events' = [events EXCEPT ![p] = {}]
    /\ stmt_no' = [stmt_no EXCEPT ![p] = 0]

\* relaccess_stats_dump, relaccess_stats_update_internal: line 478, line 577
dump_LWLockAcquire(p) ==
    \/ LWLockAcquire_ht(p, "idle", "dump_ht")
    \/ LWLockAcquire_ht(p, "idle", "update_ht")

\* relaccess_dump_to_files(true): line 603
dump_to_files_LWLockAcquire(p) ==
    \/ LWLockAcquire_file(p, "dump_ht", "dump_file")
    \/ LWLockAcquire_file(p, "update_ht", "update_file")

\* faulty variant: the pass returns with relaccess_file_lock still held
dump_to_files_keeps_file_lock(p, order, bad) ==
    /\ pc[p] \in {"dump_file", "update_file"}
    /\ relaccess_file_lock = p
    /\ LET m == relaccess_dump_to_files(Machine(p), TRUE, MyDatabaseId[p], order, bad)
       IN /\ relaccesses' = m.ht
          /\ dumpfiles' = m.files
          /\ had_ht_overflow' = [had_ht_overflow EXCEPT ![p] = m.ovf]
          /\ ev' = SpillEv(IF pc[p] = "dump_file" THEN "dump" ELSE "update_dump",
                           p, m, order)
    /\ pc' = [pc EXCEPT ![p] = IF @ = "dump_file" THEN "idle" ELSE "upsert"]
    /\ relaccess_ht_lock' = Unlocked
    /\ UNCHANGED <<rest, objectId, op_pre, stats_entries, relaccess_file_lock>>

\* relaccess_dump_to_files(true) from line 604 to its end, and the
\* LWLockRelease of relaccess_ht_lock that follows the call
dump_to_files_release(p, order, bad) ==
    /\ pc[p] \in {"dump_file", "update_file"}
    /\ relaccess_file_lock = p
    /\ LET m == relaccess_dump_to_files(Machine(p), TRUE, MyDatabaseId[p], order, bad)
       IN /\ relaccesses' = m.ht
          /\ dumpfiles' = m.files
          /\ had_ht_overflow' = [had_ht_overflow EXCEPT ![p] = m.ovf]
          /\ ev' = SpillEv(IF pc[p] = "dump_file" THEN "dump" ELSE "update_dump",
                           p, m, order)
    /\ pc' = [pc EXCEPT ![p] = IF @ = "dump_file" THEN "idle" ELSE "upsert"]
    /\ relaccess_ht_lock' = Unlocked
    /\ relaccess_file_lock' = NoProc
    /\ UNCHANGED <<rest, objectId, op_pre, stats_entries>>

\* relaccess_upsert_from_file: line 656
upsert_LWLockAcquire(p) == LWLockAcquire_file(p, "upsert", "upsert_file")

\* faulty variant: the lock is released before the file is unlinked
SPI_execute_then_release(p, ret) ==
    /\ pc[p] = "upsert_file"
    /\ relaccess_file_lock = p
    /\ ev' = [Ev("spi", p) EXCEPT !.arg = ret, !.hit = dumpfiles[MyDatabaseId[p]].exists]
    /\ relaccess_file_lock' = NoProc
    /\ IF ret = SPI_THROWS
       THEN /\ pc' = [pc EXCEPT ![p] = "idle"]
            /\ stats_entries' = [stats_entries EXCEPT ![p] = <<>>]
            /\ AbortOnError(p)
       ELSE /\ pc' = [pc EXCEPT ![p] = IF ret = SPI_OK THEN "unlink_ok" ELSE "unlink_neg"]
            /\ stats_entries' = [stats_entries EXCEPT ![p] =
                                    relaccess_stats_from_dump(dumpfiles, MyDatabaseId[p])]
            /\ UNCHANGED <<staging, observed>>
    /\ UNCHANGED <<shared, session, stmt_counter, hash_seq, now, budget, committed,
                   overflow_episode, had_ht_overflow, objectId, op_pre,
                   relaccess_ht_lock>>

\* SPI_execute (line 662): the query reads the dump file of the backend's
\* database, as it stands, through relaccess_stats_from_dump; an ERROR raised
\* inside releases the lock and aborts the transaction
SPI_execute(p, ret) ==
    /\ pc[p] = "upsert_file"
    /\ relaccess_file_lock = p
    /\ ev' = [Ev("spi", p) EXCEPT !.arg = ret, !.hit = dumpfiles[MyDatabaseId[p]].exists]
    /\ IF ret = SPI_THROWS
       THEN /\ pc' = [pc EXCEPT ![p] = "idle"]
            /\ relaccess_file_lock' = NoProc
            /\ stats_entries' = [stats_entries EXCEPT ![p] = <<>>]
            /\ AbortOnError(p)
       ELSE /\ pc' = [pc EXCEPT ![p] = IF ret = SPI_OK THEN "unlink_ok" ELSE "unlink_neg"]
            /\ stats_entries' = [stats_entries EXCEPT ![p] =
                                    relaccess_stats_from_dump(dumpfiles, MyDatabaseId[p])]
            /\ UNCHANGED <<staging, observed, relaccess_file_lock>>
    /\ UNCHANGED <<shared, session, stmt_counter, hash_seq, now, budget, committed,
                   overflow_episode, had_ht_overflow, objectId, op_pre,
                   relaccess_ht_lock>>

\* lines 663 to 668: unlink, LWLockRelease, and the ERROR for a result < 0
upsert_unlink_release(p) ==
    /\ pc[p] \in {"unlink_ok", "unlink_neg"}
    /\ dumpfiles' = upsert_unlink(dumpfiles, MyDatabaseId[p],
                                  IF pc[p] = "unlink_ok" THEN SPI_OK ELSE SPI_NEGATIVE)
    /\ pc' = [pc EXCEPT ![p] = "idle"]
    /\ relaccess_file_lock' = NoProc
    /\ ev' = [Ev("upsert", p) EXCEPT
                 !.arg = IF pc[p] = "unlink_ok" THEN SPI_OK ELSE SPI_NEGATIVE,
                 !.hit = dumpfiles[MyDatabaseId[p]].exists]
    /\ IF pc[p] = "unlink_neg" THEN AbortOnError(p) ELSE UNCHANGED <<staging, observed>>
    /\ UNCHANGED <<relaccesses, session, stmt_counter, hash_seq, now, budget,
                   committed, overflow_episode, had_ht_overflow, objectId, op_pre,
                   relaccess_ht_lock, stats_entries>>

\* relaccess_drop_hook: line 755
drop_LWLockAcquire(p, dbid) ==
    /\ pc[p] = "idle"
    /\ HtLockFree
    /\ \A q \in Procs : MyDatabaseId[q] # dbid /\ objectId[q] # dbid
    /\ relaccess_ht_lock' = [Unlocked EXCEPT !.excl = p]
    /\ pc' = [pc EXCEPT ![p] = "drop_ht"]
    /\ objectId' = [objectId EXCEPT ![p] = dbid]
    /\ op_pre' = [op_pre EXCEPT ![p] = DOMAIN relaccesses]
    /\ ev' = Ev("acquire_ht", p)
    /\ UNCHANGED <<shared, rest, had_ht_overflow, relaccess_file_lock, stats_entries>>

\* lines 756 to 766
drop_remove_release(p) ==
    /\ pc[p] = "drop_ht"
    /\ relaccesses' = RemoveDb(relaccesses, objectId[p])
    /\ had_ht_overflow' = [had_ht_overflow EXCEPT ![p] =
                              IF \E k \in DOMAIN relaccesses : k[1] = objectId[p]
                              THEN FALSE ELSE @]
    /\ pc' = [pc EXCEPT ![p] = "drop_unlink"]
    /\ relaccess_ht_lock' = Unlocked
    /\ ev' = [Ev("drop", p) EXCEPT !.arg = objectId[p]]
    /\ UNCHANGED <<dumpfiles, rest, objectId, op_pre, relaccess_file_lock,
                   stats_entries>>

\* line 767
drop_unlink_LWLockAcquire(p) == LWLockAcquire_file(p, "drop_unlink", "drop_file")

\* lines 768 to 771
drop_unlink_release(p) ==
    /\ pc[p] = "drop_file"
    /\ dumpfiles' = [dumpfiles EXCEPT ![objectId[p]] = NoFile]
    /\ pc' = [pc EXCEPT ![p] = "idle"]
    /\ objectId' = [objectId EXCEPT ![p] = 0]
    /\ op_pre' = [op_pre EXCEPT ![p] = {}]
    /\ relaccess_file_lock' = NoProc
    /\ ev' = [Ev("drop_unlink", p) EXCEPT
                 !.arg = objectId[p],
                 !.hit = dumpfiles[objectId[p]].exists,
                 !.keys = {k \in op_pre[p] : k[1] = objectId[p]}]
    /\ UNCHANGED <<relaccesses, rest, had_ht_overflow, relaccess_ht_lock,
                   stats_entries>>

\* relaccess_stats_fillfactor: LWLockAcquire(relaccess_ht_lock, LW_SHARED)
fillfactor_LWLockAcquire(p) ==
    /\ pc[p] = "idle"
    /\ relaccess_ht_lock.excl = NoProc
    /\ relaccess_ht_lock' = [relaccess_ht_lock EXCEPT !.shared = @ \cup {p}]
    /\ pc' = [pc EXCEPT ![p] = "fill_ht"]
    /\ ev' = Ev("acquire_shared", p)
    /\ UNCHANGED <<shared, rest, had_ht_overflow, objectId, op_pre,
                   relaccess_file_lock, stats_entries>>

\* relaccess_stats_fillfactor: lines 486 to 488
relaccess_stats_fillfactor(p) ==
    /\ pc[p] = "fill_ht"
    /\ relaccess_ht_lock' = [relaccess_ht_lock EXCEPT !.shared = @ \ {p}]
    /\ pc' = [pc EXCEPT ![p] = "idle"]
    /\ ev' = [Ev("fillfactor", p) EXCEPT
                 !.arg = (hash_get_num_entries(relaccesses) * 100) \div relaccess_size,
                 !.keys = DOMAIN relaccesses]
    /\ UNCHANGED <<shared, rest, had_ht_overflow, objectId, op_pre,
                   relaccess_file_lock, stats_entries>>

\* SELECT ... FROM relaccess_stats_from_dump(): the first call opens the
\* file and reads it to its end; no lock is taken
stats_from_dump_firstcall(p) ==
    /\ pc[p] = "idle"
    /\ stats_entries' = [stats_entries EXCEPT ![p] =
                            relaccess_stats_from_dump(dumpfiles, MyDatabaseId[p])]
    /\ ev' = [Ev("from_dump", p) EXCEPT !.hit = dumpfiles[MyDatabaseId[p]].exists]
    /\ UNCHANGED <<shared, rest, had_ht_overflow, pc, objectId, op_pre, locks>>

\* the postmaster exits with the backends gone: shmem_exit(code) calls
\* relaccess_shmem_shutdown, which returns at once for code # 0 and takes
\* relaccess_ht_lock otherwise
shmem_exit(code) ==
    /\ \A p \in Procs : pc[p] = "idle"
    /\ pc' = [p \in Procs |-> "exit"]
    /\ relaccess_ht_lock' = IF code = 0 THEN [Unlocked EXCEPT !.excl = Postmaster]
                            ELSE relaccess_ht_lock
    /\ ev' = [Ev("shmem_exit", Postmaster) EXCEPT !.arg = code]
    /\ UNCHANGED <<shared, rest, had_ht_overflow, objectId, op_pre,
                   relaccess_file_lock, stats_entries>>

\* relaccess_dump_to_files(false): line 603
shutdown_LWLockAcquire(p) ==
    /\ p = Postmaster
    /\ relaccess_ht_lock.excl = p
    /\ FileLockFree
    /\ relaccess_file_lock' = p
    /\ ev' = Ev("acquire_file", p)
    /\ UNCHANGED <<shared, rest, had_ht_overflow, pc, objectId, op_pre,
                   relaccess_ht_lock, stats_entries>>

\* faulty variant: the shutdown dumps the entries of one database
shutdown_dump_one_db(m, order, bad) == relaccess_dump_to_files(m, TRUE, 1, order, bad)

shutdown_dump(m, order, bad) == relaccess_dump_to_files(m, FALSE, 0, order, bad)

\* relaccess_shmem_shutdown from line 604 of the call to its end
relaccess_shmem_shutdown(p, order, bad) ==
    /\ p = Postmaster
    /\ relaccess_file_lock = p
    /\ LET m == shutdown_dump([ht |-> relaccesses, files |-> dumpfiles, ovf |-> FALSE,
                               cache |-> Empty, warn |-> 0, failed |-> NoKey],
                              order, bad)
       IN /\ relaccesses' = m.ht
          /\ dumpfiles' = m.files
          /\ ev' = [Ev("shutdown", p) EXCEPT
                       !.warn = m.warn, !.spill = TRUE, !.order = order,
                       !.bad = m.failed,
                       !.files = file_mapping(relaccesses, FALSE, 0)]
    /\ relaccess_ht_lock' = Unlocked
    /\ relaccess_file_lock' = NoProc
    /\ UNCHANGED <<rest, had_ht_overflow, pc, objectId, op_pre, stats_entries>>

----------------------------------------------------------------------------
(* Settings and sessions                                                   *)

\* SET gp_relaccess_stats.enabled
SetEnabled(p, b) ==
    /\ pc[p] = "idle"
    /\ is_enabled[p] # b
    /\ is_enabled' = [is_enabled EXCEPT ![p] = b]
    /\ ev' = NoEv
    /\ UNCHANGED <<shared, MyDatabaseId, dump_on_overflow, staging, stmt_counter,
                   had_ht_overflow, pc, hash_seq, objectId, now, budget, history>>
    /\ UNCHANGED <<locks, stats_entries, observed>>

\* SIGHUP: the backends reread gp_relaccess_stats.dump_on_overflow between
\* commands, never inside the commit callback
SetDumpOnOverflow(b) ==
    /\ HtLockFree
    /\ dump_on_overflow # b
    /\ dump_on_overflow' = b
    /\ ev' = NoEv
    /\ UNCHANGED <<shared, MyDatabaseId, is_enabled, staging, stmt_counter,
                   had_ht_overflow, pc, hash_seq, objectId, now, budget, history>>
    /\ UNCHANGED <<locks, stats_entries, observed>>

\* the backend exits and a new one starts in database dbid: _PG_init's state
Reconnect(p, dbid) ==
    /\ pc[p] = "idle"
    /\ MyDatabaseId[p] # dbid
    /\ \A q \in Procs : objectId[q] # dbid
    /\ MyDatabaseId' = [MyDatabaseId EXCEPT ![p] = dbid]
    /\ ClearLocal(p)
    /\ stmt_counter' = [stmt_counter EXCEPT ![p] = 0]
    /\ had_ht_overflow' = [had_ht_overflow EXCEPT ![p] = FALSE]
    /\ overflow_episode' = [overflow_episode EXCEPT ![p] = FALSE]
    /\ ev' = NoEv
    /\ UNCHANGED <<shared, is_enabled, dump_on_overflow, pc, hash_seq, objectId,
                   now, budget, committed, op_pre>>
    /\ events' = [events EXCEPT ![p] = {}]
    /\ stmt_no' = [stmt_no EXCEPT ![p] = 0]
    /\ UNCHANGED <<locks, stats_entries>>

----------------------------------------------------------------------------
(* Specifications                                                          *)

Times == {t \in {now, now + 1} : t <= MaxTime}
Envs == [junk : UninitOids, name : Names]
RangeVars == [relid : Rels, relname : Names]

\* the scan orders of the shared table, and the entries whose write may fail
Orders == Perms(DOMAIN relaccesses)
Bads(faults) == IF faults THEN (DOMAIN relaccesses) \cup {NoKey} ELSE {NoKey}

\* does the scan step of backend p for staging key skey call the dump?
NeedsDump(p, skey) ==
    /\ dump_on_overflow
    /\ hash_get_num_entries(relaccesses) = relaccess_size
    /\ <<MyDatabaseId[p], skey[1]>> \notin DOMAIN relaccesses

MergeOrders(p, skey) == IF NeedsDump(p, skey) THEN Orders ELSE {<<>>}
MergeBads(p, skey, faults) == IF NeedsDump(p, skey) THEN Bads(faults) ELSE {NoKey}

\* The entry a committed SELECT of backend p at time 1 leaves in the table
SelectedEntry(p, key) ==
    LET lae == memorize_local_access_entry(Empty, 0, key[2], {ACL_SELECT},
                                           GetUserId(p), 1, GarbageOid)
        m0 == [ht |-> Empty, files |-> [d \in Dbs |-> NoFile], ovf |-> FALSE,
               cache |-> update_relname_cache(Empty, key[2], 0, 1),
               warn |-> 0, failed |-> NoKey]
    IN MergeInto(m0, lae[<<key[2], 0>>], key).ht[key]

\* the table after earlier backends committed one SELECT on each key of K
Selected(K) == [k \in K |-> SelectedEntry(NumProcs, k)]

SelectedCount(K) ==
    [k \in Keys |-> [b \in AclBits |-> IF k \in K /\ b = ACL_SELECT THEN 1 ELSE 0]]

\* tables the system starts from: empty, or full with relations of two
\* databases
StartKeys == {{}, {<<1, 1>>, <<2, 1>>}}

InitWith(K, dump, dbs, t, n) ==
    /\ relaccesses = Selected(K)
    /\ dumpfiles = [d \in Dbs |-> NoFile]
    /\ MyDatabaseId = dbs
    /\ is_enabled = [p \in Procs |-> TRUE]
    /\ dump_on_overflow = dump
    /\ local_access_entries = [p \in Procs |-> Empty]
    /\ relname_cache = [p \in Procs |-> Empty]
    /\ stmt_counter = [p \in Procs |-> 0]
    /\ had_ht_overflow = [p \in Procs |-> FALSE]
    /\ pc = [p \in Procs |-> "idle"]
    /\ hash_seq = [p \in Procs |-> {}]
    /\ objectId = [p \in Procs |-> 0]
    /\ now = t
    /\ budget = n
    /\ committed = SelectedCount(K)
    /\ overflow_episode = [p \in Procs |-> FALSE]
    /\ op_pre = [p \in Procs |-> {}]
    /\ ev = NoEv
    /\ relaccess_ht_lock = Unlocked
    /\ relaccess_file_lock = NoProc
    /\ stats_entries = [p \in Procs |-> <<>>]
    /\ events = [p \in Procs |-> {}]
    /\ stmt_no = [p \in Procs |-> 0]

Statement(p) ==
    \/ \E rt \in SeqsUpTo(RteInputs, MaxRte), ts \in Times, env \in Envs :
          collect_relaccess_hook(p, rt, ts, env)
    \/ \E rels \in SeqsUpTo(RangeVars, MaxRte), ts \in Times, env \in Envs :
          collect_truncate_hook(p, rels, ts, env)
    \/ relaccess_executor_end_hook(p)

Commit(p, faults) ==
    \/ XactCommit(p)
    \/ \E skey \in hash_seq[p] :
          \E order \in MergeOrders(p, skey), bad \in MergeBads(p, skey, faults) :
              XactMerge(p, skey, order, bad)
    \/ XactCommitEnd(p)

Dump(p, faults) ==
    \E order \in Orders, bad \in Bads(faults) : relaccess_stats_dump(p, order, bad)

Update(p, faults) ==
    \/ \E order \in Orders, bad \in Bads(faults) :
          relaccess_stats_update_internal(p, order, bad)
    \/ \E ret \in SpiOutcomes : relaccess_upsert_from_file(p, ret)

Drop(p) ==
    \/ \E dbid \in Dbs : relaccess_drop_hook(p, dbid)
    \/ relaccess_drop_unlink(p)

Workers == {1}
Admins == Procs \ Workers
HomeDbs == [p \in Procs |-> 1]

\* Spec: a backend runs transactions in database 1 against a table that
\* starts empty or full, while the overflow setting changes and dump-file
\* writes may fail.
Init == \E K \in StartKeys : InitWith(K, FALSE, HomeDbs, MaxTime, MaxAccess)

Next ==
    \/ \E p \in Workers : Statement(p) \/ Commit(p, TRUE) \/ XactAbort(p)
    \/ \E b \in BOOLEAN : SetDumpOnOverflow(b)

Spec == Init /\ [][Next]_vars

\* SpecAdmin: one backend commits single-relation transactions while the
\* other calls relaccess_stats_dump(), relaccess_stats_update() and DROP
\* DATABASE; both move between the databases.
MaxAccessAdmin == 1

InitAdmin ==
    \E dump \in BOOLEAN :
        InitWith({<<1, 1>>, <<2, 1>>}, dump, HomeDbs, MaxTime, MaxAccessAdmin)

NextAdmin ==
    \/ \E p \in Workers :
          \/ \E rt \in SeqsUpTo(RteInputs, MaxRte), ts \in Times, env \in Envs :
                collect_relaccess_hook(p, rt, ts, env)
          \/ Commit(p, TRUE)
    \/ \E p \in Admins : Dump(p, TRUE) \/ Update(p, TRUE) \/ Drop(p)
    \/ \E p \in Procs, dbid \in Dbs : Reconnect(p, dbid)

SpecAdmin == InitAdmin /\ [][NextAdmin]_vars

\* SpecNoLoss: every backend runs transactions and dumps, each in its own
\* database, with dump_on_overflow on and every write succeeding.
OwnDbs == [p \in Procs |-> IF p <= NumDbs THEN p ELSE 1]

InitNoLoss == InitWith({<<1, 1>>, <<2, 1>>}, TRUE, OwnDbs, MaxTime, MaxAccess)

NextNoLoss ==
    \/ \E p \in Workers :
          Statement(p) \/ Commit(p, FALSE) \/ XactAbort(p) \/ Dump(p, FALSE)
    \/ \E p \in Admins :
          \/ \E rt \in SeqsUpTo(RteInputs, MaxRte), ts \in Times, env \in Envs :
                collect_relaccess_hook(p, rt, ts, env)
          \/ Commit(p, FALSE)
          \/ Dump(p, FALSE)

SpecNoLoss == InitNoLoss /\ [][NextNoLoss]_vars

\* SpecOverflow: with dump_on_overflow off and the table full, a backend of
\* database 1 commits single-statement transactions while a backend of
\* database 2 calls relaccess_stats_dump().
MaxAccessOverflow == 3

InitOverflow ==
    InitWith({<<1, 1>>, <<2, 1>>}, FALSE,
             [p \in Procs |-> IF p \in Workers THEN 1 ELSE 2],
             MaxTime, MaxAccessOverflow)

NextOverflow ==
    \/ \E p \in Workers :
          \/ \E rt \in SeqsUpTo(RteInputs, MaxRte), ts \in Times, env \in Envs :
                collect_relaccess_hook(p, rt, ts, env)
          \/ Commit(p, FALSE)
    \/ \E p \in Admins : Dump(p, FALSE)

SpecOverflow == InitOverflow /\ [][NextOverflow]_vars

\* SpecStaging: one backend runs statements of a transaction, and aborts,
\* while the clock advances; nothing is committed.
MaxAccessStaging == 3

InitStaging == InitWith({}, FALSE, HomeDbs, 1, MaxAccessStaging)

NextStaging == \E p \in Workers : Statement(p) \/ XactAbort(p)

SpecStaging == InitStaging /\ [][NextStaging]_vars

\* SpecEnabled: a backend runs transactions while gp_relaccess_stats.enabled
\* is switched off and on in its session.
InitEnabled == InitWith({}, FALSE, HomeDbs, MaxTime, MaxAccess)

NextEnabled ==
    \E p \in Workers :
        \/ \E rt \in SeqsUpTo(RteInputs, MaxRte), ts \in Times, env \in Envs :
              collect_relaccess_hook(p, rt, ts, env)
        \/ Commit(p, FALSE)
        \/ XactAbort(p)
        \/ \E b \in BOOLEAN : SetEnabled(p, b)

SpecEnabled == InitEnabled /\ [][NextEnabled]_vars

\* SpecLocks: the backends, both in database 1, commit transactions and call
\* relaccess_stats_dump(), relaccess_stats_update(),
\* relaccess_stats_fillfactor(), relaccess_stats_from_dump() and DROP DATABASE,
\* each lock acquisition a step of its own, until the postmaster shuts down.
MaxAccessLocks == 1

ExitCodes == {0, 1}

\* the statements of SpecLocks: a SELECT on one relation
LockRtes ==
    {<<[rtekind |-> RTE_RELATION, relid |-> r, requiredPerms |-> {ACL_SELECT}]>> :
        r \in Rels}

InitLocks == InitWith({<<1, 1>>, <<2, 1>>}, TRUE, HomeDbs, MaxTime, MaxAccessLocks)

\* the steps of backend p
Backend(p) ==
    \/ \E rt \in LockRtes :
          collect_relaccess_hook(p, rt, now, [junk |-> GarbageOid, name |-> 1])
    \/ Commit(p, FALSE)
    \/ dump_LWLockAcquire(p)
    \/ dump_to_files_LWLockAcquire(p)
    \/ \E order \in Orders, bad \in Bads(FALSE) :
          dump_to_files_release(p, order, bad)
    \/ upsert_LWLockAcquire(p)
    \/ \E ret \in SpiOutcomes : SPI_execute(p, ret)
    \/ upsert_unlink_release(p)
    \/ \E dbid \in Dbs : drop_LWLockAcquire(p, dbid)
    \/ drop_remove_release(p)
    \/ drop_unlink_LWLockAcquire(p)
    \/ drop_unlink_release(p)
    \/ fillfactor_LWLockAcquire(p)
    \/ relaccess_stats_fillfactor(p)
    \/ stats_from_dump_firstcall(p)

\* the steps of the postmaster's exit
Shutdown ==
    \/ \E code \in ExitCodes : shmem_exit(code)
    \/ shutdown_LWLockAcquire(Postmaster)
    \/ \E order \in Orders, bad \in Bads(TRUE) :
          relaccess_shmem_shutdown(Postmaster, order, bad)

NextLocks == (\E p \in Procs : Backend(p)) \/ Shutdown

SpecLocks == InitLocks /\ [][NextLocks]_vars

\* SpecTimes: the backends, both in database 1, stage accesses while the
\* clock advances and commit in any order, so that a commit may bring
\* timestamps older than, equal to or newer than the stored ones.
MaxAccessTimes == 2

InitTimes == InitWith({<<1, 1>>}, FALSE, HomeDbs, 1, MaxAccessTimes)

NextTimes ==
    \E p \in Procs :
        \/ \E rt \in SeqsUpTo(RteInputs, MaxRte), ts \in Times, env \in Envs :
              collect_relaccess_hook(p, rt, ts, env)
        \/ Commit(p, FALSE)

SpecTimes == InitTimes /\ [][NextTimes]_vars

\* SpecNames: a backend runs transactions of SELECTs and TRUNCATEs, commits
\* and aborts them, while relations are renamed between its statements and
\* gp_relaccess_stats.enabled is switched off and on in its session.
InitNames == InitWith({}, FALSE, HomeDbs, MaxTime, MaxAccess)

NextNames ==
    \E p \in Workers :
        \/ Statement(p)
        \/ Commit(p, FALSE)
        \/ XactAbort(p)
        \/ \E b \in BOOLEAN : SetEnabled(p, b)

SpecNames == InitNames /\ [][NextNames]_vars

----------------------------------------------------------------------------
(* Properties                                                              *)

Counter(entry, b) ==
    CASE b = ACL_SELECT -> entry.n_select
      [] b = ACL_INSERT -> entry.n_insert
      [] b = ACL_UPDATE -> entry.n_update
      [] b = ACL_DELETE -> entry.n_delete
      [] b = ACL_TRUNCATE -> entry.n_truncate

FileRecords(files, d) == files[d].records

InFile(files, key) ==
    \E i \in DOMAIN FileRecords(files, key[1]) : FileRecords(files, key[1])[i].key = key

\* the keys of `order` that belong to database d, in scan order
OfDb(order, d) == LET Test(k) == k[1] = d IN SelectSeq(order, Test)

\* C1: an abort, whatever the staging buffer holds, leaves every entry of the
\* shared table as it was and writes no dump file.
C1_AbortLeavesStore ==
    [][ev'.op = "abort" => UNCHANGED <<relaccesses, dumpfiles>>]_vars

C1_Witness ==
    /\ ev.op = "abort"
    /\ ev.arg > 0
    /\ local_access_entries[ev.p] = Empty
    /\ relaccesses # Empty

\* C2: a commit that found the table empty and staged N <= relaccess_size
\* distinct relations leaves exactly one entry per (MyDatabaseId, relid), and
\* each counter equals the number of staging entries of the relation whose
\* perms hold the bit.
C2_CommitIntoEmpty ==
    [][(ev'.op = "commit_end" /\ op_pre[ev'.p] = {}) =>
        LET p == ev'.p
            lae == local_access_entries[p]
            relids == {skey[1] : skey \in DOMAIN lae}
        IN Cardinality(relids) <= relaccess_size =>
            /\ DOMAIN relaccesses' = {<<MyDatabaseId[p], r>> : r \in relids}
            /\ hash_get_num_entries(relaccesses') = Cardinality(relids)
            /\ \A r \in relids, b \in AclBits :
                  Counter(relaccesses'[<<MyDatabaseId[p], r>>], b) =
                      Cardinality({skey \in DOMAIN lae :
                                      skey[1] = r /\ b \in lae[skey].perms})
      ]_vars

C2_Witness ==
    /\ ev.op = "commit_end"
    /\ ev.hit
    /\ ev.arg = 2
    /\ hash_get_num_entries(relaccesses) = 2
    /\ \E k \in DOMAIN relaccesses : relaccesses[k].n_update = 1

StoreCount(key, b) ==
    IF key \in DOMAIN relaccesses THEN Counter(relaccesses[key], b) ELSE 0

RECURSIVE FileCount(_, _, _)
FileCount(recs, key, b) ==
    IF recs = <<>>
    THEN 0
    ELSE (IF Head(recs).key = key THEN Counter(Head(recs), b) ELSE 0)
         + FileCount(Tail(recs), key, b)

\* C3: with dump_on_overflow on, no failed write, no drop and no ingestion,
\* in every state reached by concurrent statements, commits, aborts and
\* dumps, each counter of each key in the table plus the same counter summed
\* over the key's records in its database's dump file equals the number of
\* staging entries with that bit that the commits have merged.
C3_NoCommittedUpdateLost ==
    \A key \in Keys, b \in AclBits :
        StoreCount(key, b) + FileCount(FileRecords(dumpfiles, key[1]), key, b)
            = committed[key][b]

C3_Witness ==
    /\ ev.op = "commit_end"
    /\ \E key \in DOMAIN relaccesses :
          /\ InFile(dumpfiles, key)
          /\ committed[key][ACL_SELECT] >= 2
    /\ \E key \in Keys : committed[key][ACL_UPDATE] >= 1

\* the entries of the table before the step that the step has neither kept
\* nor written to their database's dump file
LostEntries ==
    {k \in DOMAIN relaccesses :
        /\ ~(k \in DOMAIN relaccesses' /\ (k = ev'.key \/ relaccesses'[k] = relaccesses[k]))
        /\ \A i \in DOMAIN FileRecords(dumpfiles', k[1]) :
              FileRecords(dumpfiles', k[1])[i] # relaccesses[k]}

\* C4 (as the code has it): when the scan of a commit reaches a staging
\* entry whose key is absent from a full table and dump_on_overflow is on,
\* every entry the table held is afterwards still in the table or a record of
\* its database's dump file, and, provided no write of the dump failed, the
\* new key is in the table once that staging entry is merged.
C4_SpillKeepsEntries ==
    [][(ev'.op = "merge" /\ ev'.spill) =>
          /\ LostEntries = {}
          /\ ev'.bad = NoKey => ev'.key \in DOMAIN relaccesses'
      ]_vars

C4_Witness ==
    /\ ev.op = "merge"
    /\ ev.spill
    /\ ev.bad = NoKey
    /\ ev.key \in DOMAIN relaccesses
    /\ \E k \in Keys : k # ev.key /\ InFile(dumpfiles, k)

\* C4 as stated: after a commit that found the table full, with
\* dump_on_overflow on, and staged a key absent from it, every key the table
\* held is still in the table or in its database's dump file, and every
\* staged key is in the table.
C4_AsStated ==
    [][(/\ ev'.op = "commit_end"
        /\ dump_on_overflow
        /\ Cardinality(op_pre[ev'.p]) = relaccess_size) =>
          LET p == ev'.p
              staged == {<<MyDatabaseId[p], skey[1]>> :
                            skey \in DOMAIN local_access_entries[p]}
          IN staged \ op_pre[p] # {} =>
                /\ \A k \in op_pre[p] :
                      k \in DOMAIN relaccesses' \/ InFile(dumpfiles', k)
                /\ staged \ op_pre[p] \subseteq DOMAIN relaccesses'
      ]_vars

\* C5 as stated: with dump_on_overflow off, merging a staging entry whose key
\* is absent from a full table leaves the number of entries unchanged, and
\* raises one WARNING if the backend has inserted a key since its last
\* dropped update (or never dropped one), none otherwise.
C5_OneWarningPerEpisode ==
    [][(/\ ev'.op = "merge"
        /\ ~dump_on_overflow
        /\ hash_get_num_entries(relaccesses) = relaccess_size
        /\ ~ev'.hit) =>
          /\ hash_get_num_entries(relaccesses') = hash_get_num_entries(relaccesses)
          /\ ev'.warn = (IF overflow_episode[ev'.p] THEN 0 ELSE 1)
      ]_vars

\* C6: merging a staging entry whose key is in a full table, with
\* dump_on_overflow on or off, adds the staged bits to the entry's counters,
\* calls no dump, raises no WARNING and leaves the set of keys and every
\* other entry as they were.
C6_ExistingKeyInFullTable ==
    [][(/\ ev'.op = "merge"
        /\ ev'.hit
        /\ hash_get_num_entries(relaccesses) = relaccess_size) =>
          LET key == ev'.key
              src == local_access_entries[ev'.p][<<key[2], ev'.arg>>]
          IN /\ DOMAIN relaccesses' = DOMAIN relaccesses
             /\ \A b \in AclBits :
                   Counter(relaccesses'[key], b) =
                       Counter(relaccesses[key], b) + Bit(src.perms, b)
             /\ \A k \in DOMAIN relaccesses : k # key => relaccesses'[k] = relaccesses[k]
             /\ ~ev'.spill
             /\ dumpfiles' = dumpfiles
             /\ ev'.warn = 0
      ]_vars

C6_Witness ==
    /\ ev.op = "merge"
    /\ ev.hit
    /\ hash_get_num_entries(relaccesses) = relaccess_size
    /\ had_ht_overflow[ev.p]
    /\ relaccesses[ev.key].n_select + relaccesses[ev.key].n_update >= 2

\* what relaccess_stats_from_dump() must return for a table entry
ExpectedColumns(e) ==
    [relid |-> e.key[2], relname |-> e.relname,
     last_reader_id |-> e.last_reader_id, last_writer_id |-> e.last_writer_id,
     last_read |-> e.last_read, last_write |-> e.last_write,
     n_select_queries |-> e.n_select, n_insert_queries |-> e.n_insert,
     n_update_queries |-> e.n_update, n_delete_queries |-> e.n_delete,
     n_truncate_queries |-> e.n_truncate]

\* C7: after a dump in which every write succeeded, each file of the pass
\* holds the records it held before followed by the entries of its database
\* as the table had them, in scan order; relaccess_stats_from_dump() returns
\* them field by field; none of their keys is left in the table.
C7_SpillThenReadBack ==
    [][(ev'.spill /\ ev'.bad = NoKey) =>
          \A d \in ev'.files :
              LET spilled == OfDb(ev'.order, d)
                  before == FileRecords(dumpfiles, d)
              IN /\ dumpfiles'[d].exists
                 /\ dumpfiles'[d].records =
                       before \o [i \in 1..Len(spilled) |-> relaccesses[spilled[i]]]
                 /\ relaccess_stats_from_dump(dumpfiles', d) =
                       relaccess_stats_from_dump(dumpfiles, d) \o
                       [i \in 1..Len(spilled) |-> ExpectedColumns(relaccesses[spilled[i]])]
                 /\ \A i \in 1..Len(spilled) : spilled[i] \notin DOMAIN relaccesses'
      ]_vars

C7_Witness ==
    /\ ev.spill
    /\ ev.bad = NoKey
    /\ \E d \in ev.files :
          /\ Len(OfDb(ev.order, d)) > 0
          /\ Len(FileRecords(dumpfiles, d)) > Len(OfDb(ev.order, d))

\* C8: the first step of a drop removes the entries of the database from the
\* table and nothing else; the second deletes its dump file and nothing else;
\* after it the table has no entry of the database, the file does not exist
\* and relaccess_stats_from_dump() of it is empty.
C8_DropRemovesDatabase ==
    [][/\ ev'.op = "drop" =>
            /\ DOMAIN relaccesses' = {k \in DOMAIN relaccesses : k[1] # ev'.arg}
            /\ \A k \in DOMAIN relaccesses' : relaccesses'[k] = relaccesses[k]
            /\ dumpfiles' = dumpfiles
       /\ ev'.op = "drop_unlink" =>
            /\ \A k \in DOMAIN relaccesses' : k[1] # ev'.arg
            /\ dumpfiles'[ev'.arg] = NoFile
            /\ relaccess_stats_from_dump(dumpfiles', ev'.arg) = <<>>
            /\ relaccesses' = relaccesses
            /\ \A d \in Dbs : d # ev'.arg => dumpfiles'[d] = dumpfiles[d]
      ]_vars

C8_Witness ==
    /\ ev.op = "drop_unlink"
    /\ ev.hit
    /\ ev.keys # {}
    /\ relaccesses # Empty
    /\ \E d \in Dbs : FileRecords(dumpfiles, d) # <<>>

\* C9 as stated: when SPI_execute fails in relaccess_upsert_from_file, by a
\* negative result or by an ERROR, the dump file of the database is as it was.
C9_FailedIngestionKeepsFile ==
    [][(ev'.op = "upsert" /\ ev'.arg # SPI_OK) => dumpfiles' = dumpfiles]_vars

\* C10 as stated: when a write fails during a dump, the entry whose write
\* failed stays in the table, a WARNING is raised, and the entries of the
\* other databases of the pass are all written to their files and removed
\* from the table.
C10_FailedWriteSparesOtherFiles ==
    [][(ev'.spill /\ ev'.bad # NoKey) =>
          /\ ev'.bad \in DOMAIN relaccesses'
          /\ ev'.warn >= 1
          /\ \A k \in DOMAIN relaccesses :
                (k[1] \in ev'.files /\ k[1] # ev'.bad[1]) =>
                    /\ k \notin DOMAIN relaccesses'
                    /\ InFile(dumpfiles', k)
      ]_vars

\* C11: the table never holds more than relaccess_size entries, and the scan
\* step that finds the table full and its key absent enters the key only
\* after a dump has removed an entry.
C11_CapacityBound ==
    /\ hash_get_num_entries(relaccesses) <= relaccess_size
    /\ [][/\ hash_get_num_entries(relaccesses') <= relaccess_size
          /\ (/\ ev'.op = "merge"
              /\ hash_get_num_entries(relaccesses) = relaccess_size
              /\ ~ev'.hit
              /\ ev'.key \in DOMAIN relaccesses') =>
                 /\ ev'.spill
                 /\ DOMAIN relaccesses \ DOMAIN relaccesses' # {}
       ]_vars

C11_Witness ==
    /\ ev.op = "merge"
    /\ ~ev.hit
    /\ ~ev.spill
    /\ ev.key \notin DOMAIN relaccesses
    /\ hash_get_num_entries(relaccesses) = relaccess_size

WriteBits == {ACL_INSERT, ACL_UPDATE, ACL_DELETE, ACL_TRUNCATE}
HasWriteBit(perms) == perms \cap WriteBits # {}
Max(S) == CHOOSE x \in S : \A y \in S : y <= x

\* the accesses staged under one key of local_access_entries
EventsOf(p, skey) == {e \in events[p] : e.relid = skey[1] /\ e.cnt = skey[2]}

\* C12: a staging entry's perms are the union of the perms of the accesses
\* staged under its key, last_write is the latest time of those with a write
\* bit, last_read the latest time of those with SELECT and no write bit (0
\* when there is none); and a hook call that stages only accesses with a
\* write bit leaves last_read and last_reader_id of existing entries alone.
C12_StagingEntryAccumulates ==
    /\ [](\A p \in Procs :
            /\ DOMAIN local_access_entries[p] = {<<e.relid, e.cnt>> : e \in events[p]}
            /\ \A skey \in DOMAIN local_access_entries[p] :
                  LET entry == local_access_entries[p][skey]
                      E == EventsOf(p, skey)
                  IN /\ entry.perms = UNION {e.perms : e \in E}
                     /\ entry.last_write =
                           Max({e.ts : e \in {x \in E : HasWriteBit(x.perms)}} \cup {0})
                     /\ entry.last_read =
                           Max({e.ts : e \in {x \in E : /\ ACL_SELECT \in x.perms
                                                        /\ ~HasWriteBit(x.perms)}} \cup {0}))
    /\ [][\A p \in Procs :
            (/\ events'[p] \ events[p] # {}
             /\ \A e \in events'[p] \ events[p] : HasWriteBit(e.perms)) =>
                \A skey \in DOMAIN local_access_entries[p] :
                    /\ skey \in DOMAIN local_access_entries'[p]
                    /\ local_access_entries'[p][skey].last_read =
                          local_access_entries[p][skey].last_read
                    /\ local_access_entries'[p][skey].last_reader_id =
                          local_access_entries[p][skey].last_reader_id
       ]_vars

C12_Witness ==
    \E p \in Procs : \E skey \in DOMAIN local_access_entries[p] :
        /\ local_access_entries[p][skey].last_read = 1
        /\ local_access_entries[p][skey].last_write = 2
        /\ local_access_entries[p][skey].last_reader_id = GetUserId(p)
        /\ local_access_entries[p][skey].perms = {ACL_SELECT, ACL_UPDATE}
        /\ Cardinality(EventsOf(p, skey)) >= 2

\* C13 as stated: a commit into an empty table with room for every staged
\* relation leaves in each counter of each relation the number of distinct
\* statements of the transaction, queries or truncates, that accessed the
\* relation with that bit.
C13_OnePerStatement ==
    [][(ev'.op = "commit_end" /\ op_pre[ev'.p] = {}) =>
        LET p == ev'.p
            relids == {e.relid : e \in events[p]}
        IN Cardinality(relids) <= relaccess_size =>
            \A r \in relids, b \in AclBits :
                /\ <<MyDatabaseId[p], r>> \in DOMAIN relaccesses'
                /\ Counter(relaccesses'[<<MyDatabaseId[p], r>>], b) =
                      Cardinality({e.stmt : e \in {x \in events[p] :
                                                     x.relid = r /\ b \in x.perms}})
      ]_vars

\* C14 as stated: after the callback has run for a commit or an abort,
\* whatever gp_relaccess_stats.enabled is at that moment, both
\* transaction-local tables of the backend are empty.
C14_StagingEmptyAfterTransaction ==
    [][ev'.op \in {"commit_end", "commit_off", "abort"} =>
          /\ local_access_entries'[ev'.p] = Empty
          /\ relname_cache'[ev'.p] = Empty
      ]_vars

C15_ShutdownSpillsEveryDatabase ==
    [][/\ ev'.op = "shutdown" =>
            /\ ev'.files = {k[1] : k \in DOMAIN relaccesses}
            /\ \A d \in Dbs :
                  /\ dumpfiles'[d].exists = (dumpfiles[d].exists \/ d \in ev'.files)
                  /\ Len(dumpfiles'[d].records) >= Len(dumpfiles[d].records)
                  /\ SubSeq(dumpfiles'[d].records, 1, Len(dumpfiles[d].records)) =
                        dumpfiles[d].records
            /\ \A k \in DOMAIN relaccesses :
                  IF k \in DOMAIN relaccesses'
                  THEN ev'.bad # NoKey /\ relaccesses'[k] = relaccesses[k]
                  ELSE \E i \in (Len(dumpfiles[k[1]].records) + 1)..
                                    Len(dumpfiles'[k[1]].records) :
                          dumpfiles'[k[1]].records[i] = relaccesses[k]
            /\ ev'.bad = NoKey =>
                  /\ relaccesses' = Empty
                  /\ \A d \in Dbs :
                        LET spilled == OfDb(ev'.order, d)
                        IN dumpfiles'[d].records =
                              dumpfiles[d].records \o
                              [i \in 1..Len(spilled) |-> relaccesses[spilled[i]]]
            /\ stats_entries' = stats_entries
       /\ (\E p \in Procs : pc[p] = "exit") =>
            /\ ev'.op \in {"acquire_file", "shutdown"}
            /\ ev'.p = Postmaster
            /\ stats_entries' = stats_entries
      ]_vars

C15_Witness ==
    /\ ev.op = "shutdown"
    /\ ev.bad = NoKey
    /\ Cardinality(ev.files) > 1
    /\ Len(ev.order) = relaccess_size
    /\ relaccesses = Empty
    /\ \A d \in ev.files : dumpfiles[d].exists /\ Len(dumpfiles[d].records) > 0

Actors == Procs \cup {Postmaster}

HoldsHt(p) == relaccess_ht_lock.excl = p \/ p \in relaccess_ht_lock.shared

\* a backend inside a call, and the postmaster inside the shutdown
Inside(p) ==
    IF p = Postmaster
    THEN relaccess_ht_lock.excl = p
    ELSE pc[p] \notin {"idle", "exit"}

StepOf(p) == IF p = Postmaster THEN Shutdown ELSE Backend(p)

\* C17: a step in which a process comes to hold relaccess_ht_lock, in either
\* mode, is taken by a process that does not hold relaccess_file_lock, and a
\* step that takes relaccess_file_lock leaves relaccess_ht_lock as it is: a
\* process that holds both took relaccess_ht_lock first.  No deadlock: when
\* processes are inside calls, one of them has a step it can take, and the
\* holder of relaccess_file_lock always has one.
C17_LockOrder ==
    /\ [](/\ (\E p \in Actors : Inside(p)) =>
                \E p \in Actors : Inside(p) /\ ENABLED StepOf(p)
          /\ \A p \in Actors : relaccess_file_lock = p => ENABLED StepOf(p)
          /\ \A p \in Procs :
                (pc[p] \in {"idle", "exit"}) =>
                    ~HoldsHt(p) /\ relaccess_file_lock # p)
    /\ [][\A p \in Actors :
             /\ (HoldsHt(p)' /\ ~HoldsHt(p)) => relaccess_file_lock # p
             /\ (relaccess_file_lock' = p /\ relaccess_file_lock # p) =>
                    /\ relaccess_ht_lock' = relaccess_ht_lock
                    /\ relaccess_file_lock = NoProc
       ]_vars

C17_Witness ==
    \E p, q \in Procs :
        /\ relaccess_file_lock = p
        /\ relaccess_ht_lock.excl = p
        /\ pc[q] \in {"upsert", "drop_unlink"}

\* C18: every step that changes the shared table is taken by the process
\* that holds relaccess_ht_lock in exclusive mode; the lock is never held
\* in both modes; while a backend holds it in shared mode the table does not
\* change, and relaccess_stats_fillfactor() reads the table with no commit
\* scan, dump, drop or shutdown under way.
C18_StoreUnderExclusiveLock ==
    /\ [](/\ relaccess_ht_lock.excl # NoProc => relaccess_ht_lock.shared = {}
          /\ relaccess_ht_lock.excl \in Actors \cup {NoProc}
          /\ \A p \in Procs :
                (pc[p] \in {"merge", "dump_ht", "dump_file", "update_ht",
                            "update_file", "drop_ht"}) =>
                    relaccess_ht_lock.excl = p)
    /\ [][/\ relaccesses' # relaccesses =>
                /\ relaccess_ht_lock.excl = ev'.p
                /\ ev'.p \in Actors
          /\ relaccess_ht_lock.shared # {} => relaccesses' = relaccesses
          /\ ev'.op = "fillfactor" =>
                /\ ev'.p \in relaccess_ht_lock.shared
                /\ ev'.keys = DOMAIN relaccesses
                /\ \A q \in Procs :
                      pc[q] \notin {"merge", "dump_ht", "dump_file", "update_ht",
                                    "update_file", "drop_ht"}
                /\ relaccess_ht_lock.excl # Postmaster
       ]_vars

C18_Witness ==
    /\ ev.op = "fillfactor"
    /\ ev.arg > 0
    /\ ev.arg < 100
    /\ \E k \in ev.keys : k[2] > 1 /\ committed[k][ACL_SELECT] > 0

\* C19: every step that appends to a dump file, unlinks one or reads one is
\* taken by the process that holds relaccess_file_lock (the spill of the
\* commit scan takes and releases it within its step, so it finds the lock
\* free), and so no file is read while another process holds the lock to
\* append to it or to delete it.
C19_FileOperationsUnderFileLock ==
    [][/\ dumpfiles' # dumpfiles =>
             IF ev'.op = "merge"
             THEN relaccess_file_lock = NoProc
             ELSE relaccess_file_lock = ev'.p
       /\ ev'.op \in {"spi", "from_dump"} => relaccess_file_lock = ev'.p
      ]_vars

\* backend p stands between SPI_execute and unlink
Ingested(p) == pc[p] \in {"unlink_ok", "unlink_neg"}

\* C20: from the SPI_execute of relaccess_upsert_from_file to its unlink the
\* backend holds relaccess_file_lock and no step of any process changes a
\* dump file, so the file the unlink deletes holds exactly the records the
\* query was run against; the unlink deletes that file only.  A step that
\* appends to the file of a database is never taken while a backend of that
\* database stands between the two, so what a spill appends after the query
\* has run goes to a file that flush does not delete.
C20_NoAppendBeforeUnlink ==
    [][\A p \in Procs :
          /\ Ingested(p) =>
                /\ relaccess_file_lock = p
                /\ stats_entries[p] =
                      relaccess_stats_from_dump(dumpfiles, MyDatabaseId[p])
                /\ Ingested(p)' => dumpfiles' = dumpfiles
          /\ (ev'.op = "upsert" /\ ev'.p = p) =>
                /\ Ingested(p)
                /\ dumpfiles' = [dumpfiles EXCEPT ![MyDatabaseId[p]] = NoFile]
          /\ (Len(dumpfiles'[MyDatabaseId[p]].records) >
                    Len(dumpfiles[MyDatabaseId[p]].records)) =>
                /\ ~Ingested(p)
                /\ pc[p] = "upsert_file" => ev'.p = p
      ]_vars

C20_Witness ==
    /\ ev.op = "upsert"
    /\ ev.hit
    /\ Len(stats_entries[ev.p]) > 0
    /\ ~dumpfiles[MyDatabaseId[ev.p]].exists
    /\ \E q \in Procs :
          /\ q # ev.p
          /\ relaccess_ht_lock.excl = q
          /\ pc[q] \in {"dump_ht", "update_ht", "merge"}

\* C21: a step of the commit scan that finds had_ht_overflow set and obtains
\* an entry for its key, found or newly entered, with dump_on_overflow on or
\* off, leaves the flag clear; so a dropped update that follows a successful
\* one raises a WARNING.
C21_SuccessClearsFlag ==
    [][/\ (/\ ev'.op = "merge"
           /\ had_ht_overflow[ev'.p]
           /\ ev'.key \in DOMAIN relaccesses') =>
              ~had_ht_overflow'[ev'.p]
       /\ (/\ ev'.op = "merge"
           /\ ev'.key \notin DOMAIN relaccesses'
           /\ ~overflow_episode[ev'.p]) =>
              ev'.warn = 1
      ]_vars

\* the staging entry the scan step recorded in ev has merged
Staged(e) == local_access_entries[e.p][<<e.key[2], e.arg>>]

\* C22: across every step, an entry whose key stays in the table keeps or
\* raises last_read, last_write and each of its five counters.  A scan step
\* that finds the key replaces last_read and last_reader_id together, by the
\* staged values, when the staged last_read is greater than the stored one,
\* and leaves both as they were otherwise; the same for last_write and
\* last_writer_id.
C22_TimesNeverDecrease ==
    [][/\ \A k \in DOMAIN relaccesses \cap DOMAIN relaccesses' :
             /\ relaccesses'[k].last_read >= relaccesses[k].last_read
             /\ relaccesses'[k].last_write >= relaccesses[k].last_write
             /\ \A b \in AclBits :
                   Counter(relaccesses'[k], b) >= Counter(relaccesses[k], b)
       /\ (ev'.op = "merge" /\ ev'.hit) =>
             LET src == Staged(ev')
                 old == relaccesses[ev'.key]
                 new == relaccesses'[ev'.key]
             IN /\ IF src.last_read > old.last_read
                   THEN /\ new.last_read = src.last_read
                        /\ new.last_reader_id = src.last_reader_id
                   ELSE /\ new.last_read = old.last_read
                        /\ new.last_reader_id = old.last_reader_id
                /\ IF src.last_write > old.last_write
                   THEN /\ new.last_write = src.last_write
                        /\ new.last_writer_id = src.last_writer_id
                   ELSE /\ new.last_write = old.last_write
                        /\ new.last_writer_id = old.last_writer_id
      ]_vars

C22_Witness ==
    /\ ev.op = "merge"
    /\ ev.hit
    /\ LET src == Staged(ev)
           dst == relaccesses[ev.key]
       IN /\ src.last_read > 0
          /\ src.last_read < dst.last_read
          /\ src.last_reader_id # dst.last_reader_id
          /\ dst.n_select > 1

\* the keys of the table that are also keys of records of their dump file
InBoth(ht, files) == {k \in DOMAIN ht : InFile(files, k)}

\* the records a step has appended to the dump file of database d
Appended(d) ==
    SubSeq(dumpfiles'[d].records, Len(dumpfiles[d].records) + 1,
           Len(dumpfiles'[d].records))

\* C23 (as the code has it): a key comes to be both in the table and in its
\* dump file only by a scan step of a commit that enters it anew, counters
\* from zero, when a record of it is already in the file; no update is then
\* counted in both: counter by counter, table plus file never exceed the
\* staging entries the commits have scanned.  A commit takes an entry out of
\* the table only in a dump pass, holding relaccess_ht_lock, in the step
\* that appends it to its file, and a step appends no record of a key it
\* leaves in the table.
C23_RecordsAndEntriesDisjoint ==
    /\ [](\A key \in Keys, b \in AclBits :
             StoreCount(key, b) + FileCount(FileRecords(dumpfiles, key[1]), key, b)
                <= committed[key][b])
    /\ [][/\ \A k \in InBoth(relaccesses', dumpfiles') \ InBoth(relaccesses, dumpfiles) :
                /\ ev'.op = "merge"
                /\ ev'.key = k
                /\ ~ev'.hit
                /\ InFile(dumpfiles, k)
                /\ \A b \in AclBits :
                      Counter(relaccesses'[k], b) = Bit(Staged(ev').perms, b)
          /\ \A k \in DOMAIN relaccesses \ DOMAIN relaccesses' :
                /\ ev'.spill
                /\ relaccess_ht_lock.excl = ev'.p
                /\ relaccess_file_lock = NoProc
                /\ \E i \in DOMAIN Appended(k[1]) : Appended(k[1])[i] = relaccesses[k]
          /\ \A d \in Dbs :
                /\ Len(dumpfiles'[d].records) >= Len(dumpfiles[d].records)
                /\ \A i \in DOMAIN Appended(d) :
                      Appended(d)[i].key \in DOMAIN relaccesses \ DOMAIN relaccesses'
       ]_vars

C23_Witness ==
    /\ ev.op = "commit_end"
    /\ \A p \in Procs : pc[p] # "merge"
    /\ \E k \in InBoth(relaccesses, dumpfiles) :
          /\ committed[k][ACL_SELECT] >= 2
          /\ StoreCount(k, ACL_SELECT) >= 1
          /\ FileCount(FileRecords(dumpfiles, k[1]), k, ACL_SELECT) >= 1

\* C23 as stated: while no commit scan is under way no key of the table is
\* the key of a record of its database's dump file, and an entry leaves the
\* table in the step that writes its record.
C23_AsStated ==
    /\ []((\A p \in Procs : pc[p] # "merge") => InBoth(relaccesses, dumpfiles) = {})
    /\ [][\A k \in DOMAIN relaccesses \ DOMAIN relaccesses' :
             \E i \in DOMAIN Appended(k[1]) : Appended(k[1])[i].key = k
       ]_vars

\* the entries of database d that a step has taken out of the table, in the
\* order of its scan
Spilled(d) ==
    LET Gone(k) == k[1] = d /\ k \in DOMAIN relaccesses /\ k \notin DOMAIN relaccesses'
    IN SelectSeq(ev'.order, Gone)

\* C24 (as the code has it): the dump pass of relaccess_stats_dump() and of
\* relaccess_stats_update() takes out of the table only entries of the
\* backend's database, all of them when no write fails, and appends each of
\* them, in scan order, to the file of that database; every entry it leaves
\* in the table and the file of every other database are as they were.
C24_DumpOfThisDatabaseOnly ==
    [][(ev'.op \in {"dump", "update_dump"}) =>
          LET mydb == MyDatabaseId[ev'.p]
              mine == {k \in DOMAIN relaccesses : k[1] = mydb}
          IN /\ DOMAIN relaccesses' \subseteq DOMAIN relaccesses
             /\ DOMAIN relaccesses \ DOMAIN relaccesses' \subseteq mine
             /\ ev'.bad = NoKey => DOMAIN relaccesses' = DOMAIN relaccesses \ mine
             /\ \A k \in DOMAIN relaccesses' : relaccesses'[k] = relaccesses[k]
             /\ \A d \in Dbs \ {mydb} : dumpfiles'[d] = dumpfiles[d]
             /\ dumpfiles'[mydb].exists
             /\ dumpfiles'[mydb].records =
                   dumpfiles[mydb].records \o
                   [i \in 1..Len(Spilled(mydb)) |-> relaccesses[Spilled(mydb)[i]]]
      ]_vars

C24_Witness ==
    /\ ev.op \in {"dump", "update_dump"}
    /\ ev.bad = NoKey
    /\ Len(OfDb(ev.order, MyDatabaseId[ev.p])) > 0
    /\ \A k \in DOMAIN relaccesses : k[1] # MyDatabaseId[ev.p]
    /\ \E k \in DOMAIN relaccesses : InFile(dumpfiles, k)
    /\ Len(dumpfiles[MyDatabaseId[ev.p]].records) > 0

\* C24 as stated: the pass takes out of the table exactly the entries of the
\* backend's database and appends only to the file of that database; the
\* entries and the files of the other databases are unchanged.
C24_AsStated ==
    [][(ev'.op \in {"dump", "update_dump"}) =>
          LET mydb == MyDatabaseId[ev'.p]
          IN /\ DOMAIN relaccesses' = {k \in DOMAIN relaccesses : k[1] # mydb}
             /\ \A k \in DOMAIN relaccesses' : relaccesses'[k] = relaccesses[k]
             /\ \A d \in Dbs \ {mydb} : dumpfiles'[d] = dumpfiles[d]
      ]_vars

\* the name of the first update_relname_cache call for relation r in the
\* hook call recorded in e
FirstName(e, r) ==
    LET i == CHOOSE j \in DOMAIN e.order :
                 /\ e.order[j][1] = r
                 /\ \A h \in 1..(j - 1) : e.order[h][1] # r
    IN e.order[i][2]

\* the relations backend p has observed in the running transaction
ObservedInXact(p) == {e.relid : e \in events[p]}

\* C25: when a hook observes a relation for the first time in the running
\* transaction, relname_cache holds afterwards the name that call supplied
\* or looked up; the cached name of a relation already observed in the
\* transaction changes in no step before the transaction ends.  A scan step
\* of the commit that obtains an entry for its key finds the relation in
\* relname_cache and leaves the cached name in the entry's relname.
C25_FirstNameWins ==
    [][/\ ev'.op = "collect" =>
             \A i \in DOMAIN ev'.order :
                LET r == ev'.order[i][1]
                IN /\ r \in DOMAIN relname_cache'[ev'.p]
                   /\ r \notin ObservedInXact(ev'.p) =>
                         relname_cache'[ev'.p][r] = FirstName(ev', r)
       /\ \A p \in Procs :
             \A r \in ObservedInXact(p) :
                \/ ev'.op \in {"commit_end", "commit_off", "abort"} /\ ev'.p = p
                \/ /\ r \in DOMAIN relname_cache[p]
                   /\ r \in DOMAIN relname_cache'[p]
                   /\ relname_cache'[p][r] = relname_cache[p][r]
       /\ (ev'.op = "merge" /\ ev'.key \in DOMAIN relaccesses') =>
             /\ ev'.key[2] \in DOMAIN relname_cache[ev'.p]
             /\ relaccesses'[ev'.key].relname = relname_cache[ev'.p][ev'.key[2]]
      ]_vars

UserIds == {GetUserId(p) : p \in Procs}

\* the events of the staging entry the scan step recorded in e has merged
MergedEvents(e) ==
    {x \in events[e.p] : x.relid = e.key[2] /\ x.cnt = e.arg}

\* the time and actor fields a key has before a step, zeroed as lines
\* 425-428 zero them when the step enters the key
Before(e) ==
    IF e.hit
    THEN relaccesses[e.key]
    ELSE [last_reader_id |-> InvalidOid, last_writer_id |-> InvalidOid,
          last_read |-> 0, last_write |-> 0]

\* C26: in every state the last_reader_id and the last_writer_id of an entry
\* are InvalidOid, with a zero time, or the user of a backend, with a time
\* above zero.  A scan step that changes last_reader_id or last_read of its
\* key merges a staging entry that recorded a read event, and leaves the
\* committing user and the time of one of those events; a staging entry
\* that recorded none, whose last_reader_id was never assigned, leaves both
\* fields as they were.  The same for writes.  No other step changes them.
C26_ActorsOfCommittedEvents ==
    /\ [](\A k \in DOMAIN relaccesses :
             /\ relaccesses[k].last_reader_id \in UserIds \cup {InvalidOid}
             /\ relaccesses[k].last_writer_id \in UserIds \cup {InvalidOid}
             /\ (relaccesses[k].last_reader_id = InvalidOid) <=>
                    (relaccesses[k].last_read = 0)
             /\ (relaccesses[k].last_writer_id = InvalidOid) <=>
                    (relaccesses[k].last_write = 0))
    /\ [][/\ (ev'.op = "merge" /\ ev'.key \in DOMAIN relaccesses') =>
                LET old == Before(ev')
                    new == relaccesses'[ev'.key]
                    reads == {x \in MergedEvents(ev') : is_read(x.perms)}
                    writes == {x \in MergedEvents(ev') : is_write(x.perms)}
                IN /\ (\/ new.last_reader_id # old.last_reader_id
                       \/ new.last_read # old.last_read) =>
                          /\ reads # {}
                          /\ new.last_reader_id = GetUserId(ev'.p)
                          /\ new.last_read \in {x.ts : x \in reads}
                   /\ (\/ new.last_writer_id # old.last_writer_id
                       \/ new.last_write # old.last_write) =>
                          /\ writes # {}
                          /\ new.last_writer_id = GetUserId(ev'.p)
                          /\ new.last_write \in {x.ts : x \in writes}
          /\ \A k \in DOMAIN relaccesses \cap DOMAIN relaccesses' :
                (ev'.op # "merge" \/ ev'.key # k) => relaccesses'[k] = relaccesses[k]
       ]_vars

C26_Witness ==
    /\ ev.op = "merge"
    /\ ev.hit
    /\ Staged(ev).last_reader_id = GarbageOid
    /\ Staged(ev).last_writer_id = GetUserId(ev.p)
    /\ relaccesses[ev.key].last_writer_id = GetUserId(ev.p)
    /\ relaccesses[ev.key].last_reader_id \in UserIds \ {GetUserId(ev.p)}

====
